---- MODULE Spec2Model ----
(***************************************************************************)
(* Request-state management core of the material-request tracker: the      *)
(* remote store, the query cache (list entries keyed by descriptor and     *)
(* single-request entries keyed by id), the read path with its retry       *)
(* policy, the mutation hooks (create, update, status change, delete)      *)
(* with their onMutate / onError / onSettled callbacks, and the status     *)
(* dropdown that gates status changes.                                     *)
(***************************************************************************)
EXTENDS Integers, Sequences, FiniteSets, TLC

\* ------------------------------------------------------------------ bounds
\* number of mutate() invocations explored in one behaviour
MaxMutations == 2
\* number of read cycles (query fetches started by an observer) explored
MaxReads == 2

\* --------------------------------------------------------------- the data
Status == {"pending", "approved", "rejected", "fulfilled"}

\* values of the editable field material_name
Names == {"steel", "cement"}

\* the ids the store can hand out, in the order a list returns them
IdSeq == <<"r1", "r2">>

Ids == {IdSeq[i] : i \in 1..Len(IdSeq)}

\* a row of material_requests; NoRow stands for "no such row"
NoRow == [id |-> "none", status |-> "none", name |-> "none", requested_by |-> "none",
          company_id |-> "none"]

Rows == [id : Ids, status : Status, name : Names, requested_by : {"u1", "u2"},
         company_id : {"c1", "c2"}]

\* STATUS_TRANSITIONS with a fulfilled request allowed back to pending
STATUS_TRANSITIONS_reopen ==
  [s \in Status |->
     CASE s = "pending"   -> {"approved", "rejected"}
       [] s = "approved"  -> {"fulfilled", "rejected"}
       [] s = "rejected"  -> {"pending"}
       [] s = "fulfilled" -> {"pending"}]

STATUS_TRANSITIONS ==
  [s \in Status |->
     CASE s = "pending"   -> {"approved", "rejected"}
       [] s = "approved"  -> {"fulfilled", "rejected"}
       [] s = "rejected"  -> {"pending"}
       [] s = "fulfilled" -> {}]

\* ------------------------------------------------------------- query keys
QUERY_KEYS_materialRequests == <<"material-requests">>

\* the status filters of the list descriptors kept in the cache
ListFilters == {"all"}

QUERY_KEYS_materialRequestsList(filter) == <<"material-requests", "list", filter>>

QUERY_KEYS_materialRequest(id) == <<"material-requests", "detail", id>>

ListKeys == {QUERY_KEYS_materialRequestsList(f) : f \in ListFilters}

\* the requests whose edit page has been opened
DetailIds == {IdSeq[1]}

DetailKeys == {QUERY_KEYS_materialRequest(i) : i \in DetailIds}

Keys == ListKeys \cup DetailKeys

\* partial (prefix) matching of query keys, as the query filters do it
MatchesKey(prefix, key) ==
  /\ Len(prefix) <= Len(key)
  /\ SubSeq(key, 1, Len(prefix)) = prefix

\* ------------------------------------------------------- cached data values
\* what a cache entry holds: nothing, a PaginatedResponse (tag "page"), a
\* single request (tag "row"), or a bare array of requests (tag "array")
NoData == [tag |-> "none", rows |-> <<>>, total |-> 0]

PageData(rows, total) == [tag |-> "page", rows |-> rows, total |-> total]

RowData(row) == [tag |-> "row", rows |-> <<row>>, total |-> 1]

IsArray(d) == d.tag = "array"

\* ------------------------------------------------------------------ errors
ErrorCode ==
  {"AUTH_SESSION_EXPIRED", "AUTH_UNAUTHORIZED", "NETWORK_OFFLINE",
   "DB_INSERT_FAILED", "DB_UPDATE_FAILED", "DB_DELETE_FAILED",
   "DB_FETCH_FAILED", "DB_NOT_FOUND", "DB_CONSTRAINT_VIOLATION",
   "DB_PERMISSION_DENIED"}

\* raw store errors: a Postgres/PostgREST code and whether the message
\* mentions row-level security
PostgrestCodes == {"PGRST116", "23505", "23503", "42501", "42P01", "PGRST301", "XX000"}

PostgrestErrors == [code : PostgrestCodes, rls : BOOLEAN]

operationCodeMap(operation) ==
  CASE operation = "insert" -> "DB_INSERT_FAILED"
    [] operation = "update" -> "DB_UPDATE_FAILED"
    [] operation = "delete" -> "DB_DELETE_FAILED"
    [] OTHER                -> "DB_FETCH_FAILED"

parsePostgrestError(error, operation) ==
  LET code == CASE error.code = "PGRST116" -> "DB_NOT_FOUND"
                [] error.code = "23505"    -> "DB_CONSTRAINT_VIOLATION"
                [] error.code = "23503"    -> "DB_CONSTRAINT_VIOLATION"
                [] error.code = "42501"    -> "DB_PERMISSION_DENIED"
                [] error.code = "42P01"    -> "DB_FETCH_FAILED"
                [] error.code = "PGRST301" -> "AUTH_SESSION_EXPIRED"
                [] OTHER                   -> operationCodeMap(operation)
  IN IF error.rls THEN "DB_PERMISSION_DENIED" ELSE code

\* the faults the remote store injects into the reads of this model
ReadFaults ==
  {[code |-> "PGRST116", rls |-> FALSE],
   [code |-> "42501", rls |-> FALSE],
   [code |-> "XX000", rls |-> FALSE]}

\* the faults the remote store injects into the writes of this model
WriteFaults == {[code |-> "42501", rls |-> FALSE]}

\* ------------------------------------------------------------------- state
\* the mutation objects that can be in flight at once
SlotSeq == <<"m1", "m2">>

Slots == {SlotSeq[i] : i \in 1..Len(SlotSeq)}

VARIABLES
  server,        \* remote store: id -> row of material_requests, or NoRow
  cache,         \* query cache: query key -> entry
  muts,          \* mutation objects of the four mutation hooks
  online,        \* navigator.onLine
  wire,          \* a bit that a remote call issued while offline flips
  notice,        \* what the last settled mutation handed to its caller
  confirmDialog, \* state of the StatusUpdateDropdown whose dialog is open
  deleteDialog,  \* MaterialRequestTable delete dialog state
  started,       \* mutate() invocations so far
  reads,         \* read cycles started so far
  peerView,      \* the status of each row as a second client's table shows it
  exportOutcome, \* what the last export operation handed to its caller
  overlapped,    \* whether a mutate() has run while another mutation was in flight
  profile,       \* id: the signed-in user; company_id: the company of the
                 \* profile the AuthProvider holds for that user; stored:
                 \* the company of that user's row in the profiles table
  input,         \* the arguments of the function under study
  output,        \* what that function returned
  db,            \* the tables of the store as several users see them
  auth,          \* the state of the AuthProvider and of its running calls
  page           \* the search parameters of the list route

vars == <<server, cache, muts, online, wire, notice, confirmDialog,
          deleteDialog, started, reads, peerView, exportOutcome, overlapped,
          profile, input, output, db, auth, page>>

\* the state outside the cache and the mutations of this client
others == <<peerView, exportOutcome, overlapped>>

\* the state of the parts studied on their own
extra == <<db, auth, page>>

aside == <<profile, input, output, extra>>

\* ------------------------------------------------------ fetch (query) path
NoResp == [kind |-> "none", data |-> NoData, err |-> "none"]

DataResp(d) == [kind |-> "data", data |-> d, err |-> "none"]

ErrorResp(code) == [kind |-> "error", data |-> NoData, err |-> code]

NewEntry ==
  [data |-> NoData, invalidated |-> FALSE, fetching |-> FALSE,
   resp |-> NoResp, failureCount |-> 0, delay |-> 0, error |-> "none"]

IsListKey(k) == k \in ListKeys

\* the select policy of material_requests: the rows of the caller's company
Visible(r) == r # NoRow /\ r.company_id = profile.stored

\* the rows of the store that the caller sees and that pass the status
\* filter, in list order
RECURSIVE SelectRows(_, _, _)
SelectRows(srv, filter, i) ==
  IF i > Len(IdSeq) THEN <<>>
  ELSE LET r == srv[IdSeq[i]]
           keep == Visible(r) /\ (filter = "all" \/ r.status = filter)
       IN (IF keep THEN <<r>> ELSE <<>>) \o SelectRows(srv, filter, i + 1)

\* a remote call: one issued while navigator.onLine is false flips the bit
Call == IF online THEN wire ELSE 1 - wire

\* fetchMaterialRequests, past its connectivity check and without a fault:
\* the page the store answers for the descriptor
fetchMaterialRequests(srv, key) ==
  LET rows == SelectRows(srv, key[3], 1)
  IN PageData(rows, Len(rows))

\* fetchMaterialRequest, past its connectivity check and without a fault:
\* .single() answers the row or PGRST116 when there is none
fetchMaterialRequest(srv, key) ==
  IF ~Visible(srv[key[3]])
  THEN ErrorResp(parsePostgrestError([code |-> "PGRST116", rls |-> FALSE], "fetch"))
  ELSE DataResp(RowData(srv[key[3]]))

\* retry option of useMaterialRequests
useMaterialRequests_retry(failureCount, code) ==
  IF code \in {"AUTH_SESSION_EXPIRED", "DB_PERMISSION_DENIED", "AUTH_UNAUTHORIZED"}
  THEN FALSE
  ELSE failureCount < 3

\* retry option of useMaterialRequest
useMaterialRequest_retry(failureCount, code) ==
  IF code \in {"DB_NOT_FOUND", "DB_PERMISSION_DENIED", "AUTH_SESSION_EXPIRED"}
  THEN FALSE
  ELSE failureCount < 2

\* retryDelay with a linear backoff
retryDelay_linear(attemptIndex) ==
  IF 1000 * (attemptIndex + 1) < 30000 THEN 1000 * (attemptIndex + 1) ELSE 30000

\* retryDelay option of useMaterialRequests and of the query client defaults
\* (which useMaterialRequest inherits): Math.min(1000 * 2 ** attemptIndex, 30000)
retryDelay(attemptIndex) ==
  IF 1000 * 2^attemptIndex < 30000 THEN 1000 * 2^attemptIndex ELSE 30000

Retry(key, failureCount, code) ==
  IF IsListKey(key) THEN useMaterialRequests_retry(failureCount, code)
  ELSE useMaterialRequest_retry(failureCount, code)

\* a query starts (or restarts) fetching
BeginFetch(e) ==
  [e EXCEPT !.fetching = TRUE, !.resp = NoResp, !.failureCount = 0, !.delay = 0]

\* an observer starts a read of the entry (mount, focus, stale data)
StartRead(k) ==
  /\ reads < MaxReads
  /\ ~cache[k].fetching
  /\ reads' = reads + 1
  /\ cache' = [cache EXCEPT ![k] = BeginFetch(@)]
  /\ UNCHANGED <<server, muts, online, wire, notice, confirmDialog, deleteDialog, started, others, aside>>

\* one run of the query function of the entry: connectivity check, then the
\* remote select, which the store answers with rows or with a fault
QueryFn(k, faults) ==
  /\ cache[k].fetching
  /\ cache[k].resp = NoResp
  /\ IF ~online
     THEN /\ cache' = [cache EXCEPT ![k].resp = ErrorResp("NETWORK_OFFLINE")]
          /\ UNCHANGED wire
     ELSE /\ wire' = Call
          /\ \/ cache' = [cache EXCEPT ![k].resp =
                            IF IsListKey(k) THEN DataResp(fetchMaterialRequests(server, k))
                            ELSE fetchMaterialRequest(server, k)]
             \/ \E f \in faults :
                  cache' = [cache EXCEPT ![k].resp = ErrorResp(parsePostgrestError(f, "fetch"))]
  /\ UNCHANGED <<server, muts, online, notice, confirmDialog, deleteDialog, started, reads, others, aside>>

\* the answer of the query function reaches the cache: data replaces the
\* entry, an error is retried after retryDelay(failureCount) ms or becomes
\* the entry's error
Land(k) ==
  /\ cache[k].fetching
  /\ cache[k].resp # NoResp
  /\ LET e == cache[k] IN
     cache' = [cache EXCEPT ![k] =
       IF e.resp.kind = "data"
       THEN [e EXCEPT !.data = e.resp.data, !.invalidated = FALSE, !.fetching = FALSE,
                      !.resp = NoResp, !.failureCount = 0, !.delay = 0,
                      !.error = "none"]
       ELSE IF Retry(k, e.failureCount, e.resp.err)
            THEN [e EXCEPT !.resp = NoResp, !.failureCount = e.failureCount + 1,
                           !.delay = retryDelay(e.failureCount)]
            ELSE [e EXCEPT !.fetching = FALSE, !.resp = NoResp, !.delay = 0,
                           !.failureCount = e.failureCount + 1, !.error = e.resp.err]]
  /\ UNCHANGED <<server, muts, online, wire, notice, confirmDialog, deleteDialog, started, reads, others, aside>>

\* the connectivity signal changes
SetOnline ==
  /\ online' = ~online
  /\ UNCHANGED <<server, cache, muts, wire, notice, confirmDialog, deleteDialog, started, reads, others, aside>>

\* ------------------------------------------------- query client operations
\* getQueryData: the data of the entry with exactly this key
GetQueryData(c, key) == IF key \in DOMAIN c THEN c[key].data ELSE NoData

\* getQueriesData: the data of every entry under the prefix
GetQueriesData(c, prefix) ==
  [k \in {q \in DOMAIN c : MatchesKey(prefix, q)} |-> c[k].data]

\* setQueryData: undefined data is ignored; defined data replaces the
\* entry's data and makes the entry a fresh success
SetQueryData(c, key, d) ==
  IF d = NoData THEN c
  ELSE IF key \in DOMAIN c
       THEN [c EXCEPT ![key].data = d, ![key].invalidated = FALSE, ![key].error = "none"]
       ELSE c @@ (key :> [NewEntry EXCEPT !.data = d])

\* setQueriesData: setQueryData on every entry under the prefix; updated[k]
\* is what the updater returns for the data of entry k
SetQueriesData(c, prefix, updated) ==
  [k \in DOMAIN c |->
     IF MatchesKey(prefix, k) /\ updated[k] # NoData
     THEN [c[k] EXCEPT !.data = updated[k], !.invalidated = FALSE, !.error = "none"]
     ELSE c[k]]

\* cancelQueries that lets the fetches in flight run on
CancelQueries_runOn(c, prefix) == c

\* cancelQueries: a fetch in flight under the prefix is dropped and its
\* entry reverts to what it was before the fetch
CancelQueries(c, prefix) ==
  [k \in DOMAIN c |->
     IF MatchesKey(prefix, k) /\ c[k].fetching
     THEN [c[k] EXCEPT !.fetching = FALSE, !.resp = NoResp, !.failureCount = 0,
                       !.delay = 0]
     ELSE c[k]]

\* invalidateQueries that lets a fetch in flight run on instead of cancelling
\* and restarting it
InvalidateQueries_noCancel(c, prefix) ==
  [k \in DOMAIN c |->
     IF MatchesKey(prefix, k)
     THEN IF c[k].fetching THEN [c[k] EXCEPT !.invalidated = TRUE]
          ELSE BeginFetch([c[k] EXCEPT !.invalidated = TRUE])
     ELSE c[k]]

\* invalidateQueries: every entry under the prefix is marked stale and, every
\* entry of this model being observed, refetched; a fetch in flight is
\* cancelled and started again
InvalidateQueries(c, prefix) ==
  [k \in DOMAIN c |->
     IF MatchesKey(prefix, k)
     THEN BeginFetch([c[k] EXCEPT !.invalidated = TRUE])
     ELSE c[k]]

\* ------------------------------------------------------------ the mutations
MutationKinds == {"status", "update", "delete", "create"}

NoSnapshot == [k \in Keys |-> NoData]

\* a mutation object: its variables (id, status, name, and for a create
\* requested_by and company_id), the context its
\* onMutate returned (previousData, previousRequests, previousRequest), the
\* answer of its mutation function (result), the number of remote calls it
\* issued (calls); before and from are history: the cache data when onMutate
\* took its snapshot, and the status the dropdown showed at handleConfirm
IdleMut ==
  [pc |-> "idle", kind |-> "none", id |-> "none", status |-> "none", name |-> "none",
   requested_by |-> "none", company_id |-> "none",
   hasContext |-> FALSE, previousData |-> NoSnapshot, previousRequests |-> NoData,
   previousRequest |-> NoData, before |-> NoSnapshot, from |-> "none",
   result |-> "none", calls |-> 0]

NoNotice == [kind |-> "none", outcome |-> "none"]

DataOf(c) == [k \in Keys |-> c[k].data]

\* updater of useUpdateStatus.onMutate
statusUpdater(old, id, status) ==
  IF ~IsArray(old) THEN old
  ELSE [old EXCEPT !.rows = [i \in 1..Len(old.rows) |->
                               IF old.rows[i].id = id
                               THEN [old.rows[i] EXCEPT !.status = status]
                               ELSE old.rows[i]]]

\* updater of useUpdateMaterialRequest.onMutate
updateUpdater(old, id, name) ==
  IF ~IsArray(old) THEN old
  ELSE [old EXCEPT !.rows = [i \in 1..Len(old.rows) |->
                               IF old.rows[i].id = id
                               THEN [old.rows[i] EXCEPT !.name = name]
                               ELSE old.rows[i]]]

\* updater of useDeleteMaterialRequest.onMutate: old?.filter(...)
deleteUpdater(old, id) ==
  IF old = NoData THEN old
  ELSE [old EXCEPT !.rows = SelectSeq(old.rows, LAMBDA request : request.id # id),
                   !.total = Len(SelectSeq(old.rows, LAMBDA request : request.id # id))]

\* old?.filter is not a function unless old is undefined or an array
deleteUpdaterThrows(old) == old # NoData /\ ~IsArray(old)

\* ------------------------------------------------- callbacks of the hooks
\* useUpdateStatus.onMutate: cancel, snapshot every query under the prefix,
\* run the updater on each of them
useUpdateStatus_onMutate(c, id, status) ==
  LET c1 == CancelQueries(c, QUERY_KEYS_materialRequests)
      previousData == GetQueriesData(c1, QUERY_KEYS_materialRequests)
      c2 == SetQueriesData(c1, QUERY_KEYS_materialRequests,
                           [k \in DOMAIN c1 |-> statusUpdater(c1[k].data, id, status)])
  IN [cache |-> c2, previousData |-> previousData, before |-> DataOf(c1)]

\* useUpdateStatus.onError: put back every snapshotted query
useUpdateStatus_onError(c, previousData) ==
  [k \in DOMAIN c |->
     IF k \in DOMAIN previousData
     THEN SetQueryData(c, k, previousData[k])[k]
     ELSE c[k]]

\* useUpdateMaterialRequest.onMutate: cancel, snapshot the query stored under
\* the bare base key, run the updater on every query under the prefix, then
\* snapshot and patch the single-request query
useUpdateMaterialRequest_onMutate(c, id, name) ==
  LET c1 == CancelQueries(c, QUERY_KEYS_materialRequests)
      previousRequests == GetQueryData(c1, QUERY_KEYS_materialRequests)
      c2 == SetQueriesData(c1, QUERY_KEYS_materialRequests,
                           [k \in DOMAIN c1 |-> updateUpdater(c1[k].data, id, name)])
      previousRequest == GetQueryData(c2, QUERY_KEYS_materialRequest(id))
      c3 == IF previousRequest # NoData
            THEN SetQueryData(c2, QUERY_KEYS_materialRequest(id),
                              RowData([previousRequest.rows[1] EXCEPT !.name = name]))
            ELSE c2
  IN [cache |-> c3, previousRequests |-> previousRequests,
      previousRequest |-> previousRequest, before |-> DataOf(c1)]

\* useUpdateMaterialRequest.onError: put back what the context holds
useUpdateMaterialRequest_onError(c, id, hasContext, previousRequests, previousRequest) ==
  LET c1 == IF hasContext /\ previousRequests # NoData
            THEN SetQueryData(c, QUERY_KEYS_materialRequests, previousRequests)
            ELSE c
  IN IF hasContext /\ previousRequest # NoData
     THEN SetQueryData(c1, QUERY_KEYS_materialRequest(id), previousRequest)
     ELSE c1

\* useDeleteMaterialRequest.onMutate: cancel, snapshot the query stored under
\* the bare base key, filter the row out of every query under the prefix;
\* throws when the updater meets data that has no filter method
useDeleteMaterialRequest_onMutate(c, id) ==
  LET c1 == CancelQueries(c, QUERY_KEYS_materialRequests)
      previousRequests == GetQueryData(c1, QUERY_KEYS_materialRequests)
      throws == \E k \in DOMAIN c1 :
                  MatchesKey(QUERY_KEYS_materialRequests, k) /\ deleteUpdaterThrows(c1[k].data)
      c2 == IF throws THEN c1
            ELSE SetQueriesData(c1, QUERY_KEYS_materialRequests,
                                [k \in DOMAIN c1 |-> deleteUpdater(c1[k].data, id)])
  IN [cache |-> c2, previousRequests |-> previousRequests, throws |-> throws,
      before |-> DataOf(c1)]

\* useDeleteMaterialRequest.onError: put back what the context holds
useDeleteMaterialRequest_onError(c, hasContext, previousRequests) ==
  IF hasContext /\ previousRequests # NoData
  THEN SetQueryData(c, QUERY_KEYS_materialRequests, previousRequests)
  ELSE c

\* onSettled that invalidates the lists only
onSettled_listsOnly(c) == InvalidateQueries(c, <<"material-requests", "list">>)

\* onSettled of the status, update and delete hooks (the second call of
\* useUpdateMaterialRequest.onSettled invalidates a key under the same prefix)
onSettled(c) == InvalidateQueries(c, QUERY_KEYS_materialRequests)

\* useCreateMaterialRequest.onSuccess without its invalidation
useCreateMaterialRequest_onSuccess_none(c) == c

\* useCreateMaterialRequest.onSuccess
useCreateMaterialRequest_onSuccess(c) == InvalidateQueries(c, QUERY_KEYS_materialRequests)

\* the code handed to options.onError: an AppError keeps its code, anything
\* else becomes the hook's Db...Failed
appError(kind, result) ==
  IF result \in ErrorCode THEN result
  ELSE CASE kind = "create" -> "DB_INSERT_FAILED"
         [] kind = "delete" -> "DB_DELETE_FAILED"
         [] OTHER           -> "DB_UPDATE_FAILED"

\* ------------------------------------------------------------------ the UI
\* the confirm dialog of the one StatusUpdateDropdown whose dialog is open
NoDialog == [open |-> FALSE, requestId |-> "none", targetStatus |-> "none"]

NoDeleteDialog == [open |-> FALSE, requestId |-> "none"]

\* both dialogs are modal: while one is open nothing behind it can be clicked
NoModal == ~confirmDialog.open /\ ~deleteDialog.open

\* the rows the table shows for a list descriptor
Displayed(filter) ==
  LET d == cache[QUERY_KEYS_materialRequestsList(filter)].data
  IN {d.rows[i] : i \in 1..Len(d.rows)}

\* isPending of the mutation object of a hook
isPending(kind, id) ==
  \E m \in Slots : /\ muts[m].kind = kind /\ muts[m].id = id
                   /\ muts[m].pc \in {"mutated", "called"}

Free(m) == muts[m].pc = "idle"

\* the mutation object a mutate() call takes: the first one not in flight
Takes(m) ==
  /\ started < MaxMutations
  /\ \E i \in 1..Len(SlotSeq) :
       /\ SlotSeq[i] = m
       /\ Free(m)
       /\ \A j \in 1..(i - 1) : ~Free(SlotSeq[j])

\* StatusUpdateDropdown.handleStatusClick on an item of the menu, which
\* lists STATUS_TRANSITIONS[currentStatus]
handleStatusClick(id, status) ==
  /\ NoModal
  /\ \E f \in ListFilters : \E r \in Displayed(f) :
       /\ r.id = id
       /\ status \in STATUS_TRANSITIONS[r.status]
  /\ ~isPending("status", id)
  /\ confirmDialog' = [open |-> TRUE, requestId |-> id, targetStatus |-> status]
  /\ UNCHANGED <<server, cache, muts, online, wire, notice, deleteDialog, started, reads, others, aside>>

\* ConfirmationDialog.onOpenChange(false) of either dialog
closeDialog ==
  /\ ~NoModal
  /\ confirmDialog' = [confirmDialog EXCEPT !.open = FALSE]
  /\ deleteDialog' = [deleteDialog EXCEPT !.open = FALSE]
  /\ UNCHANGED <<server, cache, muts, online, wire, notice, started, reads, others, aside>>

\* StatusUpdateDropdown.handleConfirm: mutate() of useUpdateStatus, whose
\* onMutate runs at once; the dialog is rendered while the row is shown with
\* a status that has transitions
handleConfirm(m) ==
  /\ confirmDialog.open
  /\ confirmDialog.targetStatus # "none"
  /\ ~isPending("status", confirmDialog.requestId)
  /\ Takes(m)
  /\ \E f \in ListFilters : \E r \in Displayed(f) :
       /\ r.id = confirmDialog.requestId
       /\ STATUS_TRANSITIONS[r.status] # {}
       /\ LET o == useUpdateStatus_onMutate(cache, r.id, confirmDialog.targetStatus) IN
          /\ cache' = o.cache
          /\ muts' = [muts EXCEPT ![m] =
               [IdleMut EXCEPT !.pc = "mutated", !.kind = "status", !.id = r.id,
                               !.status = confirmDialog.targetStatus,
                               !.hasContext = TRUE, !.previousData = o.previousData,
                               !.before = o.before, !.from = r.status]]
  /\ started' = started + 1
  /\ overlapped' = (overlapped \/ \E n \in Slots : ~Free(n))
  /\ UNCHANGED <<server, online, wire, notice, confirmDialog, deleteDialog, reads, peerView, exportOutcome, aside>>

\* MaterialRequestForm.onSubmit in edit mode: mutate() of
\* useUpdateMaterialRequest, whose onMutate runs at once; the submit button is
\* disabled while the form's mutation is pending
submitEdit(id, name, m) ==
  /\ NoModal
  /\ id \in DetailIds
  /\ ~isPending("update", id)
  /\ cache[QUERY_KEYS_materialRequest(id)].data # NoData
  /\ Takes(m)
  /\ LET o == useUpdateMaterialRequest_onMutate(cache, id, name) IN
     /\ cache' = o.cache
     /\ muts' = [muts EXCEPT ![m] =
          [IdleMut EXCEPT !.pc = "mutated", !.kind = "update", !.id = id, !.name = name,
                          !.hasContext = TRUE, !.previousRequests = o.previousRequests,
                          !.previousRequest = o.previousRequest, !.before = o.before]]
  /\ started' = started + 1
  /\ overlapped' = (overlapped \/ \E n \in Slots : ~Free(n))
  /\ UNCHANGED <<server, online, wire, notice, confirmDialog, deleteDialog, reads, peerView, exportOutcome, aside>>

\* the variables of a create that leave status to the default of the form
\* state
createVariables_anyStatus(p) ==
  [status |-> "approved", requested_by |-> p.id, company_id |-> p.company_id]

\* what MaterialRequestForm.onSubmit adds to the form data in create mode
createVariables(p) ==
  [status |-> "pending", requested_by |-> p.id, company_id |-> p.company_id]

\* MaterialRequestForm.onSubmit in create mode: without a company on the
\* profile an error toast and nothing else; otherwise mutate() of
\* useCreateMaterialRequest, which has no onMutate; the submit button is
\* disabled while the form's mutation is pending
submitCreate(name, m) ==
  /\ NoModal
  /\ ~isPending("create", "none")
  /\ IF profile.company_id = "none"
     THEN /\ m = SlotSeq[1]
          /\ notice' = [kind |-> "create", outcome |-> "User profile not found"]
          /\ UNCHANGED <<muts, started, overlapped>>
     ELSE /\ Takes(m)
          /\ muts' = [muts EXCEPT ![m] =
               [IdleMut EXCEPT !.pc = "mutated", !.kind = "create", !.name = name,
                               !.status = createVariables(profile).status,
                               !.requested_by = createVariables(profile).requested_by,
                               !.company_id = createVariables(profile).company_id,
                               !.before = DataOf(cache)]]
          /\ started' = started + 1
          /\ overlapped' = (overlapped \/ \E n \in Slots : ~Free(n))
          /\ UNCHANGED notice
  /\ UNCHANGED <<server, cache, online, wire, confirmDialog, deleteDialog, reads, peerView, exportOutcome, aside>>

\* MaterialRequestTable.handleDeleteClick on a row of the table
handleDeleteClick(id) ==
  /\ NoModal
  /\ \E f \in ListFilters : \E r \in Displayed(f) : r.id = id
  /\ deleteDialog' = [open |-> TRUE, requestId |-> id]
  /\ UNCHANGED <<server, cache, muts, online, wire, notice, confirmDialog, started, reads, others, aside>>

\* MaterialRequestTable.handleDelete: mutate() of useDeleteMaterialRequest;
\* when onMutate throws, the mutation function is skipped and onError (with
\* no context) and onSettled run
handleDelete(m) ==
  /\ deleteDialog.open
  /\ deleteDialog.requestId # "none"
  /\ ~isPending("delete", deleteDialog.requestId)
  /\ Takes(m)
  /\ LET id == deleteDialog.requestId
         o == useDeleteMaterialRequest_onMutate(cache, id)
     IN IF o.throws
        THEN /\ cache' = onSettled(useDeleteMaterialRequest_onError(o.cache, FALSE, NoData))
             /\ notice' = [kind |-> "delete", outcome |-> appError("delete", "TypeError")]
             /\ UNCHANGED muts
        ELSE /\ cache' = o.cache
             /\ muts' = [muts EXCEPT ![m] =
                  [IdleMut EXCEPT !.pc = "mutated", !.kind = "delete", !.id = id,
                                  !.hasContext = TRUE,
                                  !.previousRequests = o.previousRequests,
                                  !.before = o.before]]
             /\ UNCHANGED notice
  /\ started' = started + 1
  /\ overlapped' = (overlapped \/ \E n \in Slots : ~Free(n))
  /\ UNCHANGED <<server, online, wire, confirmDialog, deleteDialog, reads, peerView, exportOutcome, aside>>

\* ------------------------------------------------- the mutation functions
\* the first id the store has not handed out yet
FreeIds(srv) == {i \in 1..Len(IdSeq) : srv[IdSeq[i]] = NoRow}

FirstFreeId(srv) == IdSeq[CHOOSE i \in FreeIds(srv) : \A j \in FreeIds(srv) : i <= j]

operationOf(kind) ==
  CASE kind = "create" -> "insert"
    [] kind = "delete" -> "delete"
    [] OTHER           -> "update"

NoRows == [code |-> "PGRST116", rls |-> FALSE]

\* what the store does with the write of a mutation that it accepts, and
\* what it answers, under the row-level-security policies of
\* material_requests: update(...).eq("id", id).select().single() answers
\* PGRST116 when the caller sees no row with the id; delete().eq("id", id)
\* removes the row when the caller requested it and answers without an error
\* in either case; an insert outside the caller's company or for another
\* requester violates the policy
StoreWrite(srv, mu) ==
  CASE mu.kind = "status" ->
         IF ~Visible(srv[mu.id])
         THEN [server |-> srv, result |-> parsePostgrestError(NoRows, "update")]
         ELSE [server |-> [srv EXCEPT ![mu.id].status = mu.status], result |-> "ok"]
    [] mu.kind = "update" ->
         IF ~Visible(srv[mu.id])
         THEN [server |-> srv, result |-> parsePostgrestError(NoRows, "update")]
         ELSE [server |-> [srv EXCEPT ![mu.id].name = mu.name], result |-> "ok"]
    [] mu.kind = "delete" ->
         IF Visible(srv[mu.id]) /\ srv[mu.id].requested_by = profile.id
         THEN [server |-> [srv EXCEPT ![mu.id] = NoRow], result |-> "ok"]
         ELSE [server |-> srv, result |-> "ok"]
    [] OTHER ->
         IF mu.company_id # profile.stored \/ mu.requested_by # profile.id
         THEN [server |-> srv,
               result |-> parsePostgrestError([code |-> "42501", rls |-> TRUE], "insert")]
         ELSE IF FreeIds(srv) = {}
         THEN [server |-> srv,
               result |-> parsePostgrestError([code |-> "23505", rls |-> FALSE], "insert")]
         ELSE [server |-> [srv EXCEPT ![FirstFreeId(srv)] =
                             [id |-> FirstFreeId(srv), status |-> mu.status, name |-> mu.name,
                              requested_by |-> mu.requested_by,
                              company_id |-> mu.company_id]],
               result |-> "ok"]

\* the retry option of mutations letting a failed write run up to three times
mutations_retry_thrice(failureCount, code) == failureCount < 3

\* defaultOptions.mutations.retry of the query client; no mutation hook sets
\* a retry option of its own
mutations_retry(failureCount, code) == FALSE

\* where a mutation goes after its mutation function failed: back to the
\* mutation function when the retry option says so, else to its callbacks
afterFailure(mu, code) == IF mutations_retry(mu.calls, code) THEN "mutated" ELSE "called"

\* updateStatus, updateMaterialRequest, deleteMaterialRequest and
\* createMaterialRequest: connectivity check, then the one remote write,
\* which the store accepts or answers with a fault
mutationFn(m) ==
  /\ muts[m].pc = "mutated"
  /\ IF ~online
     THEN /\ muts' = [muts EXCEPT ![m].pc = afterFailure(muts[m], "NETWORK_OFFLINE"),
                                  ![m].result = "NETWORK_OFFLINE"]
          /\ UNCHANGED <<server, wire>>
     ELSE /\ wire' = Call
          /\ \/ LET w == StoreWrite(server, muts[m]) IN
                /\ server' = w.server
                /\ muts' = [muts EXCEPT ![m].pc = IF w.result = "ok" THEN "called"
                                                 ELSE afterFailure(muts[m], w.result),
                                        ![m].result = w.result,
                                        ![m].calls = @ + 1]
             \/ \E f \in WriteFaults :
                  LET code == parsePostgrestError(f, operationOf(muts[m].kind)) IN
                  /\ muts' = [muts EXCEPT ![m].pc = afterFailure(muts[m], code),
                                          ![m].calls = @ + 1,
                                          ![m].result = code]
                  /\ UNCHANGED server
  /\ UNCHANGED <<cache, online, notice, confirmDialog, deleteDialog, started, reads, others, aside>>

\* the cache after the callbacks that follow the answer of the mutation
\* function: onSuccess or onError, then onSettled (the create hook has none)
AfterSettle(c, mu) ==
  IF mu.result = "ok"
  THEN IF mu.kind = "create" THEN useCreateMaterialRequest_onSuccess(c) ELSE onSettled(c)
  ELSE CASE mu.kind = "status" -> onSettled(useUpdateStatus_onError(c, mu.previousData))
         [] mu.kind = "update" ->
              onSettled(useUpdateMaterialRequest_onError(c, mu.id, mu.hasContext,
                                                         mu.previousRequests, mu.previousRequest))
         [] mu.kind = "delete" ->
              onSettled(useDeleteMaterialRequest_onError(c, mu.hasContext, mu.previousRequests))
         [] OTHER -> c

\* the answer of the mutation function reaches the hook: its callbacks run
\* and the component's own onSuccess / onError closes its dialog
settle(m) ==
  /\ muts[m].pc = "called"
  /\ cache' = AfterSettle(cache, muts[m])
  /\ muts' = [muts EXCEPT ![m] = IdleMut]
  /\ notice' = [kind |-> muts[m].kind,
                outcome |-> IF muts[m].result = "ok" THEN "success"
                            ELSE appError(muts[m].kind, muts[m].result)]
  /\ confirmDialog' = IF muts[m].kind = "status" /\ confirmDialog.requestId = muts[m].id
                      THEN NoDialog ELSE confirmDialog
  /\ deleteDialog' = IF muts[m].kind = "delete" /\ muts[m].result = "ok"
                     THEN NoDeleteDialog ELSE deleteDialog
  /\ UNCHANGED <<server, online, wire, started, reads, others, aside>>

\* ------------------------------------------------------ a second client
\* the second client's table refetches
peerRefresh(id) ==
  /\ peerView[id] # (IF server[id] = NoRow THEN "none" ELSE server[id].status)
  /\ peerView' = [peerView EXCEPT ![id] =
                    IF server[id] = NoRow THEN "none" ELSE server[id].status]
  /\ UNCHANGED <<server, cache, muts, online, wire, notice, confirmDialog, deleteDialog,
                 started, reads, exportOutcome, overlapped, aside>>

\* the second client runs the same dropdown and the same updateStatus on
\* the status its table shows
peerUpdateStatus(id, status) ==
  /\ peerView[id] \in Status
  /\ status \in STATUS_TRANSITIONS[peerView[id]]
  /\ server' = StoreWrite(server, [kind |-> "status", id |-> id, status |-> status]).server
  /\ UNCHANGED <<cache, muts, online, wire, notice, confirmDialog, deleteDialog,
                 started, reads, peerView, exportOutcome, overlapped, aside>>

\* ------------------------------------------------------------------ export
NoOutcome == [op |-> "none", error |-> "none", count |-> 0]

\* the status filters of the export configurations explored
ExportFilters == {"all", "approved"}

\* useExportData.exportData around fetchExportData: connectivity check, the
\* remote select with the filters of the configuration, a plain Error ("No
\* data to export") for an empty answer; every failure is caught and handed
\* to onError as it is
exportData(filter) ==
  /\ IF ~online
     THEN /\ exportOutcome' = [op |-> "export", error |-> "NETWORK_OFFLINE", count |-> 0]
          /\ UNCHANGED wire
     ELSE /\ wire' = Call
          /\ \/ LET n == Len(SelectRows(server, filter, 1)) IN
                exportOutcome' = [op |-> "export", count |-> n,
                                  error |-> IF n = 0 THEN "Error" ELSE "none"]
             \/ \E f \in ReadFaults :
                  exportOutcome' = [op |-> "export", count |-> 0,
                                    error |-> parsePostgrestError(f, "fetch")]
  /\ UNCHANGED <<server, cache, muts, online, notice, confirmDialog, deleteDialog,
                 started, reads, peerView, overlapped, aside>>

\* fetchTotalCount: the remote count, with no connectivity check; an error
\* (a fault, or the call failing while offline) is logged and answered as 0
fetchTotalCount ==
  /\ wire' = Call
  /\ \/ /\ online
        /\ exportOutcome' = [op |-> "count", error |-> "none",
                             count |-> Len(SelectRows(server, "all", 1))]
     \/ exportOutcome' = [op |-> "count", error |-> "none", count |-> 0]
  /\ UNCHANGED <<server, cache, muts, online, notice, confirmDialog, deleteDialog,
                 started, reads, peerView, overlapped, aside>>

\* ------------------------------------------------------------ specification
\* no function is under study
NoInput == [fn |-> "none"]

NoOutput == [fn |-> "none"]

\* the parts studied on their own, while they are not under study
NoDb == [fn |-> "none"]

NoAuth == [fn |-> "none"]

NoPage == [fn |-> "none"]

\* the application after start-up: a signed-in user whose profile has a
\* company, one pending request in the store, nothing cached, nothing in flight
Quiet ==
  /\ server = [i \in Ids |-> IF i = IdSeq[1]
                               THEN [id |-> i, status |-> "pending", name |-> "steel",
                                     requested_by |-> "u1", company_id |-> "c1"]
                               ELSE NoRow]
  /\ cache = [k \in Keys |-> NewEntry]
  /\ muts = [m \in Slots |-> IdleMut]
  /\ online = TRUE
  /\ wire = 0
  /\ notice = NoNotice
  /\ confirmDialog = NoDialog
  /\ deleteDialog = NoDeleteDialog
  /\ started = 0
  /\ reads = 0
  /\ peerView = [i \in Ids |-> "none"]
  /\ exportOutcome = NoOutcome
  /\ overlapped = FALSE
  /\ profile = [id |-> "u1", company_id |-> "c1", stored |-> "c1"]

Started ==
  /\ Quiet
  /\ db = NoDb
  /\ auth = NoAuth
  /\ page = NoPage

Init ==
  /\ Started
  /\ input = NoInput
  /\ output = NoOutput

\* one client: reads, and the status, update and delete mutations on the
\* requests of the store
Next ==
  \/ \E k \in Keys : StartRead(k)
  \/ \E k \in Keys : QueryFn(k, {})
  \/ \E k \in Keys : Land(k)
  \/ \E i \in Ids, t \in Status : handleStatusClick(i, t)
  \/ closeDialog
  \/ \E m \in Slots : handleConfirm(m)
  \/ \E i \in Ids, n \in Names, m \in Slots : submitEdit(i, n, m)
  \/ \E i \in Ids : handleDeleteClick(i)
  \/ \E m \in Slots : handleDelete(m)
  \/ \E m \in Slots : mutationFn(m)
  \/ \E m \in Slots : settle(m)

Spec == Init /\ [][Next]_vars

\* one client creating requests
NextCreate ==
  \/ \E k \in Keys : StartRead(k)
  \/ \E k \in Keys : QueryFn(k, {})
  \/ \E k \in Keys : Land(k)
  \/ \E n \in Names, m \in Slots : submitCreate(n, m)
  \/ \E m \in Slots : mutationFn(m)
  \/ \E m \in Slots : settle(m)

SpecCreate == Init /\ [][NextCreate]_vars

\* two clients changing the status of the same requests
NextShared ==
  \/ \E k \in ListKeys : StartRead(k)
  \/ \E k \in ListKeys : QueryFn(k, {})
  \/ \E k \in ListKeys : Land(k)
  \/ \E i \in Ids, t \in Status : handleStatusClick(i, t)
  \/ closeDialog
  \/ \E m \in Slots : handleConfirm(m)
  \/ \E m \in Slots : mutationFn(m)
  \/ \E m \in Slots : settle(m)
  \/ \E i \in Ids : peerRefresh(i)
  \/ \E i \in Ids, t \in Status : peerUpdateStatus(i, t)

SpecShared == Init /\ [][NextShared]_vars

\* the read path against a store that injects faults, with the connectivity
\* signal changing, and the export operations
NextRead ==
  \/ \E k \in Keys : StartRead(k)
  \/ \E k \in Keys : QueryFn(k, ReadFaults)
  \/ \E k \in Keys : Land(k)
  \/ SetOnline
  \/ \E f \in ExportFilters : exportData(f)
  \/ fetchTotalCount

SpecRead == Init /\ [][NextRead]_vars

\* ------------------------------------------------------------------ claims

\* C1: when the remote call of a status-change, update or delete mutation
\* fails, then once its onError has run every cache entry that held data when
\* the mutation started holds exactly that data again.
C1_RollbackRestoresSnapshot ==
  [][\A m \in Slots :
       (/\ muts[m].pc = "called"
        /\ muts'[m].pc = "idle"
        /\ muts[m].kind \in {"status", "update", "delete"}
        /\ muts[m].result # "ok")
       => \A k \in Keys :
            muts[m].before[k] # NoData => cache'[k].data = muts[m].before[k]]_vars

\* C2: when onMutate of a status-change, update or delete mutation on request
\* X has run, every cached list that holds X shows the mutated value (the new
\* status, the patched name, no row X), and for an update the single-request
\* entry of X shows the patched name.
C2_OptimisticValueVisible ==
  [][\A m \in Slots :
       (/\ muts[m].pc = "idle"
        /\ muts'[m].pc = "mutated"
        /\ muts'[m].kind \in {"status", "update", "delete"})
       => /\ \A k \in ListKeys : \A i \in 1..Len(cache'[k].data.rows) :
               LET r == cache'[k].data.rows[i] IN
               r.id = muts'[m].id =>
                 CASE muts'[m].kind = "status" -> r.status = muts'[m].status
                   [] muts'[m].kind = "update" -> r.name = muts'[m].name
                   [] OTHER                    -> FALSE
          /\ \A k \in DetailKeys :
               (/\ muts'[m].kind = "update"
                /\ k = QUERY_KEYS_materialRequest(muts'[m].id)
                /\ cache'[k].data # NoData)
               => cache'[k].data.rows[1].name = muts'[m].name]_vars

\* C3: every status-change, update and delete mutation, whether it succeeds
\* or fails (a delete whose onMutate threw included), ends with every list
\* entry and the single-request entry of its id marked stale and refetching.
C3_SettleInvalidates ==
  [][\A id \in Ids :
       (\/ \E m \in Slots : /\ muts[m].pc = "called"
                            /\ muts'[m].pc = "idle"
                            /\ muts[m].kind \in {"status", "update", "delete"}
                            /\ muts[m].id = id
        \/ /\ deleteDialog.open
           /\ deleteDialog.requestId = id
           /\ started' = started + 1
           /\ muts' = muts)
       => \A k \in Keys :
            (k \in ListKeys \/ k = QUERY_KEYS_materialRequest(id))
            => /\ cache'[k].invalidated
               /\ cache'[k].fetching
               /\ cache'[k].resp = NoResp]_vars

\* a failed update has settled and every entry is stale
C3_Witness ==
  /\ notice.kind = "update"
  /\ notice.outcome = "DB_PERMISSION_DENIED"
  /\ \A k \in Keys : cache[k].invalidated /\ cache[k].data # NoData

C5_TransitionTable ==
  \A r \in Displayed("all") : \A b \in Status :
    (NoModal /\ ~isPending("status", r.id))
    => (ENABLED handleStatusClick(r.id, b)
        <=> <<r.status, b>> \in {<<"pending", "approved">>, <<"pending", "rejected">>,
                                 <<"approved", "fulfilled">>, <<"approved", "rejected">>,
                                 <<"rejected", "pending">>})

\* a rejected request is being resubmitted: the dialog asks to confirm pending
C5_Witness ==
  /\ confirmDialog.open
  /\ confirmDialog.targetStatus = "pending"
  /\ \E r \in Displayed("all") : r.id = confirmDialog.requestId /\ r.status = "rejected"

C7_StoreFollowsTable ==
  [][\A i \in Ids :
       (/\ server[i] # NoRow
        /\ server'[i] # NoRow
        /\ server'[i].status # server[i].status)
       => server'[i].status \in STATUS_TRANSITIONS[server[i].status]]_vars

\* C8: a read whose fetch failed with AuthSessionExpired, DbPermissionDenied,
\* AuthUnauthorized or DbNotFound is not retried: the error becomes the
\* entry's error at once.
C8_NoRetryOnFinalErrors ==
  [][\A k \in Keys :
       (/\ cache[k].fetching
        /\ cache[k].resp.kind = "error"
        /\ cache[k].resp.err \in {"AUTH_SESSION_EXPIRED", "DB_PERMISSION_DENIED",
                                  "AUTH_UNAUTHORIZED", "DB_NOT_FOUND"}
        /\ cache'[k].failureCount = cache[k].failureCount + 1)
       => /\ ~cache'[k].fetching
          /\ cache'[k].error = cache[k].resp.err]_vars

\* C9: while the connectivity signal reports offline no operation issues a
\* remote call.
C9_OfflineIssuesNoCall ==
  [][~online => wire' = wire]_vars

\* C10: creating a request leaves every cache entry as it is while the insert
\* is in flight; when it succeeds every entry of the list namespace is marked
\* stale with its data untouched, and when it fails the cache is unchanged.
C10_CreateTouchesNoData ==
  [][\A m \in Slots :
       /\ (muts[m].pc = "idle" /\ muts'[m].pc = "mutated" /\ muts'[m].kind = "create")
          => cache' = cache
       /\ (muts[m].kind = "create" /\ muts[m].pc = "mutated" /\ muts'[m].pc = "called")
          => cache' = cache
       /\ (muts[m].kind = "create" /\ muts[m].pc = "called" /\ muts'[m].pc = "idle")
          => IF muts[m].result = "ok"
             THEN \A k \in Keys :
                    /\ cache'[k].data = cache[k].data
                    /\ MatchesKey(<<"material-requests", "list">>, k) => cache'[k].invalidated
             ELSE cache' = cache]_vars

\* a create has succeeded and the loaded list is stale
C10_Witness ==
  /\ notice = [kind |-> "create", outcome |-> "success"]
  /\ \A k \in ListKeys : cache[k].invalidated /\ cache[k].data # NoData

\* C11: a read that keeps failing with a retryable error stops and surfaces
\* the error after a fixed number of attempts: the list query is retried at
\* most 3 times and the single-request query at most 2 times, and the delay
\* before retry k (counted from 0) is min(1000 * 2^k, 30000) ms, that is 1000
\* ms doubling with each retry and capped at 30000.
C11_BoundedRetriesWithBackoff ==
  /\ \A k \in Keys :
       LET e == cache[k]
           limit == IF IsListKey(k) THEN 3 ELSE 2
       IN /\ e.failureCount <= limit + 1
          /\ (e.fetching /\ e.failureCount > 0)
             => /\ e.failureCount <= limit
                /\ e.delay = (IF e.failureCount = 1 THEN 1000
                              ELSE IF e.failureCount = 2 THEN 2000
                              ELSE 4000)
          /\ (~e.fetching /\ e.error \in {"DB_FETCH_FAILED", "NETWORK_OFFLINE"})
             => e.failureCount = limit + 1
  /\ \A a \in 0..7 :
       /\ retryDelay(a) <= 30000
       /\ a > 0 => retryDelay(a) = (IF 2 * retryDelay(a - 1) < 30000
                                    THEN 2 * retryDelay(a - 1) ELSE 30000)

\* the list query gave up with the retryable error after its fourth attempt
C11_Witness ==
  \E k \in ListKeys :
    /\ ~cache[k].fetching
    /\ cache[k].error = "DB_FETCH_FAILED"
    /\ cache[k].failureCount = 4

\* --------------------------------------------------- the list descriptor
\* a property that is not set
Absent == "undefined"

\* longest search text explored
MaxSearchLen == 2

\* search texts: absent, or a string of blanks and letters
Searches ==
  {[defined |-> FALSE, text |-> <<>>]} \cup
  {[defined |-> TRUE, text |-> t] :
     t \in UNION {[1..n -> {" ", "a"}] : n \in 0..MaxSearchLen}}

\* MaterialRequestFilters
Filters ==
  [status : {Absent, "all", "pending"}, priority : {Absent, "all", "high"},
   search : Searches]

DEFAULT_PAGE_SIZE == 10

DEFAULT_SORTING == [column |-> "requested_at", direction |-> "desc"]

\* QUERY_KEYS.materialRequestsList: the key holds the three arguments as they
\* were passed; the query cache compares keys by their value
materialRequestsList(filters, pagination, sorting) ==
  <<"material-requests", "list",
    [filters |-> filters, pagination |-> pagination, sorting |-> sorting]>>

\* String.prototype.trim
RECURSIVE trim(_)
trim(t) ==
  IF t = <<>> THEN t
  ELSE IF Head(t) = " " THEN trim(Tail(t))
  ELSE IF t[Len(t)] = " " THEN trim(SubSeq(t, 1, Len(t) - 1))
  ELSE t

\* the select fetchMaterialRequests builds from its three arguments: range,
\* order and the constraints of the filters that are set
buildQuery(filters, pagination, sorting) ==
  [from     |-> pagination.pageIndex * pagination.pageSize,
   to       |-> pagination.pageIndex * pagination.pageSize + pagination.pageSize - 1,
   order    |-> sorting,
   status   |-> IF filters.status # Absent /\ filters.status # "all"
                THEN filters.status ELSE Absent,
   priority |-> IF filters.priority # Absent /\ filters.priority # "all"
                THEN filters.priority ELSE Absent,
   ilike    |-> IF filters.search.defined /\ trim(filters.search.text) # <<>>
                THEN trim(filters.search.text) ELSE <<>>]

\* useMaterialRequests called for two descriptors: the keys its queries are
\* stored under and the selects their query functions send
useMaterialRequests_keys ==
  /\ input.fn = "key"
  /\ output = NoOutput
  /\ output' = [fn |-> "key",
                keyA   |-> materialRequestsList(input.a, input.pagination, input.sorting),
                keyB   |-> materialRequestsList(input.b, input.pagination, input.sorting),
                queryA |-> buildQuery(input.a, input.pagination, input.sorting),
                queryB |-> buildQuery(input.b, input.pagination, input.sorting)]
  /\ UNCHANGED <<server, cache, muts, online, wire, notice, confirmDialog, deleteDialog,
                 started, reads, others, extra, profile, input>>

InitKey ==
  /\ Started
  /\ input \in [fn : {"key"}, a : Filters, b : Filters,
                pagination : {[pageIndex |-> 0, pageSize |-> DEFAULT_PAGE_SIZE]},
                sorting : {DEFAULT_SORTING}]
  /\ output = NoOutput

NextKey == useMaterialRequests_keys

SpecKey == InitKey /\ [][NextKey]_vars

\* C12: the cache key of a list is the same for semantically equal
\* (filters, pagination, sorting): equal values give equal keys, status or
\* priority "all" gives the key of no status or priority filter, and a
\* whitespace-only search gives the key of an empty search.
C12_EqualDescriptorsEqualKeys ==
  output.fn = "key" =>
    LET blank(t) == \A i \in 1..Len(t) : t[i] = " "
        norm(f) == [status   |-> IF f.status = "all" THEN Absent ELSE f.status,
                    priority |-> IF f.priority = "all" THEN Absent ELSE f.priority,
                    search   |-> IF f.search.defined /\ blank(f.search.text)
                                 THEN [defined |-> TRUE, text |-> <<>>]
                                 ELSE f.search]
    IN norm(input.a) = norm(input.b) => output.keyA = output.keyB

\* --------------------------------------------------- pagination metadata
\* largest count, page size and page index explored
MaxTotalCount == 95

MaxPageSize == 10

MaxPageIndex == 9

\* the number of rows the store answers for range(from, to) out of count rows
rangeLength(totalCount, pageSize, pageIndex) ==
  LET from == pageIndex * pageSize
  IN IF totalCount <= from THEN 0
     ELSE IF totalCount - from < pageSize THEN totalCount - from
     ELSE pageSize

\* Math.ceil(a / b) for a >= 0 and b >= 1
ceil(a, b) == (a + b - 1) \div b

\* paginationMeta with hasNextPage off by one page
paginationMeta_offByOne(totalCount, pageSize, pageIndex, length) ==
  [totalCount      |-> totalCount,
   totalPages      |-> ceil(totalCount, pageSize),
   currentPage     |-> pageIndex,
   pageSize        |-> pageSize,
   hasNextPage     |-> IF length = 0 THEN FALSE
                       ELSE pageIndex < ceil(totalCount, pageSize),
   hasPreviousPage |-> pageIndex > 0]

\* paginationMeta of fetchMaterialRequests, in its branch for an empty page
\* and in its branch for a page with rows
paginationMeta(totalCount, pageSize, pageIndex, length) ==
  IF length = 0
  THEN [totalCount      |-> totalCount,
        totalPages      |-> ceil(totalCount, pageSize),
        currentPage     |-> pageIndex,
        pageSize        |-> pageSize,
        hasNextPage     |-> FALSE,
        hasPreviousPage |-> pageIndex > 0]
  ELSE [totalCount      |-> totalCount,
        totalPages      |-> ceil(totalCount, pageSize),
        currentPage     |-> pageIndex,
        pageSize        |-> pageSize,
        hasNextPage     |-> pageIndex < ceil(totalCount, pageSize) - 1,
        hasPreviousPage |-> pageIndex > 0]

\* fetchMaterialRequests answered by the store with count and the rows of the
\* requested range
fetchMaterialRequests_page ==
  /\ input.fn = "page"
  /\ output = NoOutput
  /\ output' = [fn |-> "page",
                length |-> rangeLength(input.totalCount, input.pageSize, input.pageIndex),
                pagination |-> paginationMeta(input.totalCount, input.pageSize, input.pageIndex,
                                 rangeLength(input.totalCount, input.pageSize, input.pageIndex))]
  /\ UNCHANGED <<server, cache, muts, online, wire, notice, confirmDialog, deleteDialog,
                 started, reads, others, extra, profile, input>>

InitPage ==
  /\ Started
  /\ input \in [fn : {"page"}, totalCount : 0..MaxTotalCount, pageSize : 1..MaxPageSize,
                pageIndex : 0..MaxPageIndex]
  /\ output = NoOutput

NextPage == fetchMaterialRequests_page

SpecPage == InitPage /\ [][NextPage]_vars

\* C13: for every totalCount >= 0, pageSize >= 1 and pageIndex >= 0 the
\* pagination metadata of the list fetch has totalPages = ceil(totalCount /
\* pageSize) (the least t with t * pageSize >= totalCount), hasNextPage =
\* (pageIndex < totalPages - 1) and hasPreviousPage = (pageIndex > 0), for a
\* page with rows and for an empty page alike.
C13_PaginationMeta ==
  output.fn = "page" =>
    LET p == output.pagination IN
    /\ p.totalPages * input.pageSize >= input.totalCount
    /\ (p.totalPages - 1) * input.pageSize < input.totalCount
    /\ p.totalPages >= 0
    /\ p.hasNextPage = (input.pageIndex < p.totalPages - 1)
    /\ p.hasPreviousPage = (input.pageIndex > 0)

\* the last page of 95 rows in pages of 10
C13_Witness ==
  /\ output.fn = "page"
  /\ input.totalCount = 95 /\ input.pageSize = 10 /\ input.pageIndex = 9
  /\ output.length = 5
  /\ output.pagination.totalPages = 10
  /\ ~output.pagination.hasNextPage
  /\ output.pagination.hasPreviousPage

\* C14: every failure that reaches a caller of the core (the error of a list
\* or single-request query, the error handed to onError by the export) is a
\* classified AppError, identified by its ErrorCode, never a raw Error.
C14_FailuresAreClassified ==
  /\ \A k \in Keys : cache[k].error \in ErrorCode \cup {"none"}
  /\ exportOutcome.error \in ErrorCode \cup {"none"}

\* --------------------------------------------------------- the error layer
\* the codes of the ErrorCode enum by their prefix
AuthCodes ==
  {"AUTH_INVALID_CREDENTIALS", "AUTH_SESSION_EXPIRED", "AUTH_USER_NOT_FOUND",
   "AUTH_EMAIL_NOT_CONFIRMED", "AUTH_EMAIL_ALREADY_EXISTS", "AUTH_WEAK_PASSWORD",
   "AUTH_UNAUTHORIZED"}

NetworkCodes == {"NETWORK_OFFLINE", "NETWORK_TIMEOUT", "NETWORK_CONNECTION_FAILED"}

DbCodes ==
  {"DB_INSERT_FAILED", "DB_UPDATE_FAILED", "DB_DELETE_FAILED", "DB_FETCH_FAILED",
   "DB_NOT_FOUND", "DB_CONSTRAINT_VIOLATION", "DB_PERMISSION_DENIED"}

ValidationCodes ==
  {"VALIDATION_FAILED", "VALIDATION_REQUIRED_FIELD", "VALIDATION_INVALID_FORMAT"}

GenericCodes == {"UNKNOWN_ERROR", "UNEXPECTED_ERROR", "OPERATION_CANCELLED"}

AllErrorCodes == AuthCodes \cup NetworkCodes \cup DbCodes \cup ValidationCodes \cup GenericCodes

\* AppError.getDefaultSeverity: by the prefix of the code
getDefaultSeverity(code) ==
  IF code \in AuthCodes THEN "high"
  ELSE IF code \in NetworkCodes THEN "medium"
  ELSE IF code \in DbCodes THEN "high"
  ELSE IF code \in ValidationCodes THEN "low"
  ELSE "medium"

\* isRecoverableByDefault that also gives up on an expired session
isRecoverableByDefault_session(code) ==
  code \notin {"AUTH_UNAUTHORIZED", "DB_PERMISSION_DENIED", "AUTH_SESSION_EXPIRED"}

\* AppError.isRecoverableByDefault
isRecoverableByDefault(code) == code \notin {"AUTH_UNAUTHORIZED", "DB_PERMISSION_DENIED"}

\* new AppError(options): severity and recoverable default from the code
\* when the options leave them out (recoverable is "true", "false" or Absent)
AppError(options) ==
  [code        |-> options.code,
   severity    |-> IF options.severity # Absent THEN options.severity
                   ELSE getDefaultSeverity(options.code),
   recoverable |-> IF options.recoverable # Absent THEN options.recoverable = "true"
                   ELSE isRecoverableByDefault(options.code)]

\* options that name the code only
CodeOnly(code) == [code |-> code, severity |-> Absent, recoverable |-> Absent]

\* the texts of names and messages, and for each the search strings of the
\* parsers that it contains (compared in lower case where the parser
\* lower-cases the text first)
Contained ==
  [t \in {"boom", "Failed to fetch", "You are offline", "Email rate limit exceeded",
          "Password should be at least 6 characters", "JWT expired",
          "new row violates row-level security policy", "Invalid login credentials",
          "", "Error", "TypeError", "AuthApiError", "AppError"} |->
     CASE t = "Failed to fetch" -> {"fetch", "failed to fetch"}
       [] t = "You are offline" -> {"offline"}
       [] t = "Email rate limit exceeded" -> {"Email rate limit exceeded"}
       [] t = "Password should be at least 6 characters" -> {"Password should be"}
       [] t = "JWT expired" -> {"jwt expired"}
       [] t = "new row violates row-level security policy" -> {"row-level security"}
       [] t = "Invalid login credentials" -> {"invalid login credentials"}
       [] OTHER -> {}]

Messages ==
  {"boom", "Failed to fetch", "You are offline", "Email rate limit exceeded",
   "Password should be at least 6 characters", "JWT expired",
   "new row violates row-level security policy", "Invalid login credentials"}

\* String.prototype.includes
includes(text, search) == search \in Contained[text]

\* the values an error parser can be handed: AppErrors built by the
\* constructor, Error objects, plain objects with any of the properties the
\* type guards look at ("number": the property holds a number), strings, and
\* values that are neither objects nor strings
ErrorValue(type, code, message, name, status, details, app) ==
  [type |-> type, code |-> code, message |-> message, name |-> name,
   status |-> status, details |-> details, app |-> app]

NoAppError == [code |-> "none", severity |-> "none", recoverable |-> FALSE]

\* the options the construction sites outside the parsers pass to the
\* constructor: the code alone, or NETWORK_OFFLINE with recoverable: true
ConstructionSites ==
  {CodeOnly(c) : c \in AllErrorCodes}
  \cup {[code |-> "NETWORK_OFFLINE", severity |-> Absent, recoverable |-> "true"]}

AppErrorValues ==
  {ErrorValue("AppError", Absent, "boom", "AppError", FALSE, FALSE, AppError(o)) :
     o \in ConstructionSites}

ErrorObjects ==
  {ErrorValue("Error", Absent, m, n, s, FALSE, NoAppError) :
     m \in Messages, n \in {"Error", "TypeError"}, s \in BOOLEAN}

PlainObjects ==
  {ErrorValue("object", c, m, n, s, d, NoAppError) :
     c \in PostgrestCodes \cup {Absent},
     m \in Messages \cup {Absent, "number"},
     n \in {Absent, "", "AuthApiError", "number"},
     s \in BOOLEAN, d \in BOOLEAN}

OtherValues ==
  {ErrorValue("string", Absent, "boom", Absent, FALSE, FALSE, NoAppError),
   ErrorValue("other", Absent, Absent, Absent, FALSE, FALSE, NoAppError)}

ErrorValues == AppErrorValues \cup ErrorObjects \cup PlainObjects \cup OtherValues

\* what a parser call ends with: the AppError it returned, or an exception
Returned(fn, app) == [fn |-> fn, threw |-> FALSE, error |-> app]

Thrown(fn) == [fn |-> fn, threw |-> TRUE, error |-> NoAppError]

\* type guards of parsers.ts; an Error object has a name through its prototype
isSupabaseAuthError(error) ==
  /\ error.type \in {"Error", "object", "AppError"}
  /\ error.message \notin {Absent, "number"}
  /\ error.status
  /\ error.name # Absent

isPostgrestError(error) ==
  /\ error.type \in {"Error", "object", "AppError"}
  /\ error.code # Absent
  /\ error.message # Absent
  /\ error.details

isNetworkLikeError(error) ==
  \/ includes(error.message, "network")
  \/ includes(error.message, "fetch")
  \/ includes(error.message, "connection")
  \/ includes(error.message, "timeout")
  \/ includes(error.message, "offline")
  \/ (error.name = "TypeError" /\ includes(error.message, "failed to fetch"))

\* errorMap of parseAuthError, in the order Object.entries walks it (keys in
\* lower case, as they are compared)
errorMap ==
  << <<"invalid_credentials", "AUTH_INVALID_CREDENTIALS">>,
     <<"invalid login credentials", "AUTH_INVALID_CREDENTIALS">>,
     <<"user_not_found", "AUTH_USER_NOT_FOUND">>,
     <<"user not found", "AUTH_USER_NOT_FOUND">>,
     <<"email_not_confirmed", "AUTH_EMAIL_NOT_CONFIRMED">>,
     <<"email not confirmed", "AUTH_EMAIL_NOT_CONFIRMED">>,
     <<"user_already_exists", "AUTH_EMAIL_ALREADY_EXISTS">>,
     <<"user already registered", "AUTH_EMAIL_ALREADY_EXISTS">>,
     <<"weak_password", "AUTH_WEAK_PASSWORD">>,
     <<"session_expired", "AUTH_SESSION_EXPIRED">>,
     <<"jwt expired", "AUTH_SESSION_EXPIRED">>,
     <<"refresh token not found", "AUTH_SESSION_EXPIRED">>,
     <<"unauthorized", "AUTH_UNAUTHORIZED">> >>

\* the code of the first entry of errorMap whose key the text contains
RECURSIVE matchErrorMap(_, _)
matchErrorMap(errorKey, i) ==
  IF i > Len(errorMap) THEN "AUTH_INVALID_CREDENTIALS"
  ELSE IF includes(errorKey, errorMap[i][1]) THEN errorMap[i][2]
  ELSE matchErrorMap(errorKey, i + 1)

\* parseAuthError: errorKey is the name, or the message when the name is
\* empty; a name that is not a string has no toLowerCase
parseAuthError(error) ==
  IF error.name = "number" THEN Thrown("parseAuthError")
  ELSE LET errorKey == IF error.name \notin {Absent, ""} THEN error.name ELSE error.message
       IN IF includes(error.message, "Email rate limit exceeded")
          THEN Returned("parseAuthError",
                        AppError([code |-> "AUTH_INVALID_CREDENTIALS", severity |-> "medium",
                                  recoverable |-> Absent]))
          ELSE IF includes(error.message, "Password should be")
          THEN Returned("parseAuthError", AppError(CodeOnly("AUTH_WEAK_PASSWORD")))
          ELSE Returned("parseAuthError", AppError(CodeOnly(matchErrorMap(errorKey, 1))))

\* parsePostgrestError on a value of the error layer: the code by the switch
\* and the row-level-security override; a message that is not a string has
\* no includes
parsePostgrestErrorValue(error, operation) ==
  IF error.message = "number" THEN Thrown("parsePostgrestError")
  ELSE Returned("parsePostgrestError",
         AppError(CodeOnly(parsePostgrestError(
           [code |-> error.code,
            rls  |-> error.message # Absent /\ includes(error.message, "row-level security")],
           operation))))

\* parseNetworkError
parseNetworkError(error) ==
  IF ~online \/ includes(error.message, "offline")
  THEN Returned("parseNetworkError",
         AppError([code |-> "NETWORK_OFFLINE", severity |-> Absent, recoverable |-> "true"]))
  ELSE IF includes(error.message, "timeout") \/ includes(error.message, "timed out")
  THEN Returned("parseNetworkError",
         AppError([code |-> "NETWORK_TIMEOUT", severity |-> Absent, recoverable |-> "true"]))
  ELSE Returned("parseNetworkError",
         AppError([code |-> "NETWORK_CONNECTION_FAILED", severity |-> Absent,
                   recoverable |-> "true"]))

\* parseError
parseError(error, operation) ==
  LET r == IF error.type = "AppError" THEN Returned("parseError", error.app)
           ELSE IF isSupabaseAuthError(error) THEN parseAuthError(error)
           ELSE IF isPostgrestError(error) THEN parsePostgrestErrorValue(error, operation)
           ELSE IF error.type = "Error"
                THEN IF isNetworkLikeError(error) THEN parseNetworkError(error)
                     ELSE Returned("parseError", AppError(CodeOnly("UNEXPECTED_ERROR")))
           ELSE IF error.type = "string"
                THEN Returned("parseError", AppError(CodeOnly("UNEXPECTED_ERROR")))
           ELSE Returned("parseError", AppError(CodeOnly("UNKNOWN_ERROR")))
  IN [r EXCEPT !.fn = "parseError"]

\* the operation option of a parser call
Operations == {Absent, "insert", "update", "delete", "fetch"}

\* one call of an error parser on one value
parseError_call ==
  /\ input.fn = "error"
  /\ output = NoOutput
  /\ output' = parseError(input.value, input.operation)
  /\ UNCHANGED <<server, cache, muts, online, wire, notice, confirmDialog,
                 deleteDialog, started, reads, others, extra, profile, input>>

\* parsePostgrestError called directly, on a value of its parameter type
parsePostgrestError_call ==
  /\ input.fn = "error"
  /\ output = NoOutput
  /\ isPostgrestError(input.value)
  /\ input.value.message # "number"
  /\ output' = parsePostgrestErrorValue(input.value, input.operation)
  /\ UNCHANGED <<server, cache, muts, online, wire, notice, confirmDialog,
                 deleteDialog, started, reads, others, extra, profile, input>>

\* parseAuthError called directly, on a value of its parameter type
parseAuthError_call ==
  /\ input.fn = "error"
  /\ output = NoOutput
  /\ isSupabaseAuthError(input.value)
  /\ input.value.name # "number"
  /\ output' = parseAuthError(input.value)
  /\ UNCHANGED <<server, cache, muts, online, wire, notice, confirmDialog,
                 deleteDialog, started, reads, others, extra, profile, input>>

\* parseNetworkError called directly, on an Error
parseNetworkError_call ==
  /\ input.fn = "error"
  /\ output = NoOutput
  /\ input.value.type = "Error"
  /\ output' = parseNetworkError(input.value)
  /\ UNCHANGED <<server, cache, muts, online, wire, notice, confirmDialog,
                 deleteDialog, started, reads, others, extra, profile, input>>

\* new AppError(options) at one of the construction sites
newAppError ==
  /\ input.fn = "options"
  /\ output = NoOutput
  /\ output' = Returned("AppError", AppError(input.options))
  /\ UNCHANGED <<server, cache, muts, online, wire, notice, confirmDialog,
                 deleteDialog, started, reads, others, extra, profile, input>>

InitParse ==
  /\ Started
  /\ input \in {[fn |-> "error", value |-> v, operation |-> o] :
                  v \in ErrorValues, o \in Operations}
               \cup {[fn |-> "options", options |-> o] : o \in ConstructionSites}
  /\ output = NoOutput

NextParse ==
  \/ parseError_call
  \/ parsePostgrestError_call
  \/ parseAuthError_call
  \/ parseNetworkError_call
  \/ newAppError

SpecParse == InitParse /\ [][NextParse]_vars

\* C15: parseError never throws, hands an AppError back as it got it, turns
\* an Error that no type guard recognises into UNEXPECTED_ERROR and a value
\* that is no Error and that no type guard recognises into UNKNOWN_ERROR.
C15_ParseErrorTotal ==
  (output.fn = "parseError") =>
    /\ ~output.threw
    /\ input.value.type = "AppError" => output.error = input.value.app
    /\ ( /\ input.value.type = "Error"
         /\ ~isSupabaseAuthError(input.value)
         /\ ~isPostgrestError(input.value)
         /\ ~isNetworkLikeError(input.value) )
       => output.error.code = "UNEXPECTED_ERROR"
    /\ ( /\ input.value.type \in {"object", "string", "other"}
         /\ ~isSupabaseAuthError(input.value)
         /\ ~isPostgrestError(input.value) )
       => output.error.code = "UNKNOWN_ERROR"

\* C16: parsePostgrestError gives DB_NOT_FOUND for PGRST116,
\* DB_CONSTRAINT_VIOLATION for 23505 and 23503, DB_PERMISSION_DENIED for
\* 42501 or a message that mentions row-level security, AUTH_SESSION_EXPIRED
\* for PGRST301, and for every other error the DB_..._FAILED code of the
\* operation it was called for (a listed code together with a row-level
\* security message may give either of the two listed codes).
C16_PostgrestMapping ==
  (output.fn = "parsePostgrestError" /\ ~output.threw) =>
    LET code == input.value.code
        rls == includes(input.value.message, "row-level security")
        byCode == CASE code = "PGRST116" -> "DB_NOT_FOUND"
                    [] code \in {"23505", "23503"} -> "DB_CONSTRAINT_VIOLATION"
                    [] code = "42501" -> "DB_PERMISSION_DENIED"
                    [] code = "PGRST301" -> "AUTH_SESSION_EXPIRED"
                    [] OTHER ->
                         CASE input.operation = "insert" -> "DB_INSERT_FAILED"
                           [] input.operation = "update" -> "DB_UPDATE_FAILED"
                           [] input.operation = "delete" -> "DB_DELETE_FAILED"
                           [] OTHER -> "DB_FETCH_FAILED"
        listed == code \in {"PGRST116", "23505", "23503", "42501", "PGRST301"}
    IN IF rls
       THEN output.error.code \in
              (IF listed THEN {"DB_PERMISSION_DENIED", byCode} ELSE {"DB_PERMISSION_DENIED"})
       ELSE output.error.code = byCode

\* C17: an AppError that a parser or a construction site produced is not
\* recoverable exactly when its code is AUTH_UNAUTHORIZED or
\* DB_PERMISSION_DENIED.
C17_RecoverableByKind ==
  (output.fn # "none" /\ ~output.threw) =>
    (output.error.recoverable <=>
       output.error.code \notin {"AUTH_UNAUTHORIZED", "DB_PERMISSION_DENIED"})

\* parseError returned a permission error that is not recoverable, from a
\* store error whose code alone says so
C17_Witness ==
  /\ output.fn = "parseError"
  /\ ~output.threw
  /\ input.value.type = "object"
  /\ input.value.code = "42501"
  /\ output.error.code = "DB_PERMISSION_DENIED"
  /\ ~output.error.recoverable

\* C18: the severity of an AppError that a parser or a construction site
\* produced follows from the prefix of its code: high for AUTH_ and DB_,
\* medium for NETWORK_, low for VALIDATION_.
C18_SeverityByPrefix ==
  (output.fn # "none" /\ ~output.threw) =>
    /\ output.error.code \in AuthCodes \cup DbCodes => output.error.severity = "high"
    /\ output.error.code \in NetworkCodes => output.error.severity = "medium"
    /\ output.error.code \in ValidationCodes => output.error.severity = "low"

\* ------------------------------------------ the requester lookup of a list
MaxLookupCount == 3

MaxLookupPageSize == 2

\* the users that rows can name in requested_by
Users == {"u1", "u2"}

\* a row of the profiles table as the lookup selects it (full_name may be
\* null), and the requester of a row that has none
Profile(full_name, email) == [present |-> TRUE, full_name |-> full_name, email |-> email]

NoRequester == [present |-> FALSE, full_name |-> Absent, email |-> Absent]

\* the profiles the store can hold for the users: none, one with a name, one
\* with an email only
ProfileTables ==
  [Users -> {NoRequester, Profile("Ann", "ann@x"), Profile(Absent, "bob@x")}]

\* all sequences over Users of a given length
RECURSIVE SeqsOfLength(_)
SeqsOfLength(n) ==
  IF n = 0 THEN {<<>>}
  ELSE {Append(s, u) : s \in SeqsOfLength(n - 1), u \in Users}

\* the lookup that fails the whole fetch when the profiles cannot be read
withRequesters_failing(requests, profiles, profilesError) ==
  IF profilesError
  THEN [threw |-> TRUE, data |-> <<>>]
  ELSE [threw |-> FALSE,
        data  |-> [i \in 1..Len(requests) |->
                     [requested_by |-> requests[i], requester |-> profiles[requests[i]]]]]

\* fetchMaterialRequests, from the requester ids to the combined rows: a
\* failed lookup is logged and leaves the profile map empty
withRequesters(requests, profiles, profilesError) ==
  LET profileMap == IF profilesError THEN [u \in Users |-> NoRequester] ELSE profiles
  IN [threw |-> FALSE,
      data  |-> [i \in 1..Len(requests) |->
                   [requested_by |-> requests[i], requester |-> profileMap[requests[i]]]]]

\* the requested_by column: full name, else email, else "Unknown"
displayName(requester) ==
  IF requester.present /\ requester.full_name # Absent THEN requester.full_name
  ELSE IF requester.present /\ requester.email # Absent THEN requester.email
  ELSE "Unknown"

\* fetchMaterialRequests from the answer of the store on: the empty page
\* returns before the lookup, a page with rows looks the requesters up
fetchMaterialRequests_withProfiles(in) ==
  IF Len(in.requests) = 0
  THEN [fn |-> "profiles", threw |-> FALSE, data |-> <<>>, shown |-> <<>>,
        pagination |-> paginationMeta(in.totalCount, in.pageSize, in.pageIndex, 0)]
  ELSE LET r == withRequesters(in.requests, in.profiles, in.profilesError)
       IN [fn |-> "profiles", threw |-> r.threw, data |-> r.data,
           shown |-> [i \in 1..Len(r.data) |-> displayName(r.data[i].requester)],
           pagination |-> paginationMeta(in.totalCount, in.pageSize, in.pageIndex,
                                         Len(in.requests))]

\* one list fetch whose store answers with a page and whose profile lookup
\* succeeds or fails
fetchMaterialRequests_profiles ==
  /\ input.fn = "profiles"
  /\ output = NoOutput
  /\ output' = fetchMaterialRequests_withProfiles(input)
  /\ UNCHANGED <<server, cache, muts, online, wire, notice, confirmDialog, deleteDialog,
                 started, reads, others, extra, profile, input>>

InitProfiles ==
  /\ Started
  /\ \E totalCount \in 0..MaxLookupCount, pageSize \in 1..MaxLookupPageSize,
        pageIndex \in 0..MaxLookupCount :
       \E requests \in SeqsOfLength(rangeLength(totalCount, pageSize, pageIndex)),
          profiles \in ProfileTables, profilesError \in BOOLEAN :
         input = [fn |-> "profiles", totalCount |-> totalCount, pageSize |-> pageSize,
                  pageIndex |-> pageIndex, requests |-> requests, profiles |-> profiles,
                  profilesError |-> profilesError]
  /\ output = NoOutput

NextProfiles == fetchMaterialRequests_profiles

SpecProfiles == InitProfiles /\ [][NextProfiles]_vars

\* C19: a list fetch whose profile lookup failed still returns, with every
\* row of the page, with the pagination it would have with a working
\* lookup, with no requester on any row, and with "Unknown" shown for each.
C19_ListSurvivesProfileFailure ==
  (output.fn = "profiles" /\ input.profilesError /\ Len(input.requests) > 0) =>
    /\ ~output.threw
    /\ Len(output.data) = Len(input.requests)
    /\ \A i \in 1..Len(input.requests) :
         /\ output.data[i].requested_by = input.requests[i]
         /\ ~output.data[i].requester.present
         /\ output.shown[i] = "Unknown"
    /\ output.pagination =
         fetchMaterialRequests_withProfiles([input EXCEPT !.profilesError = FALSE]).pagination
    /\ output.pagination.totalCount = input.totalCount
    /\ output.pagination.currentPage = input.pageIndex

\* a page of two rows of users who both have a profile came back without
\* requesters because the lookup failed
C19_Witness ==
  /\ output.fn = "profiles"
  /\ input.profilesError
  /\ Len(input.requests) = 2
  /\ \A u \in Users : input.profiles[u].present
  /\ ~output.threw
  /\ Len(output.data) = 2
  /\ output.shown = <<"Unknown", "Unknown">>

\* ------------------------------------------------ a profile with no company
\* AuthProvider.initializeAuth / signIn while nothing is in flight: the page
\* starts with an empty query cache (the login form clears it), and
\* fetchOrCreateProfile reads the user's profile; for a profile without a
\* company it inserts a company and updates the profile, and when either
\* write fails it returns the profile as it is
signIn ==
  /\ NoModal
  /\ \A m \in Slots : Free(m)
  /\ \A k \in Keys : ~cache[k].fetching
  /\ cache' = [k \in Keys |-> NewEntry]
  /\ notice' = NoNotice
  /\ IF profile.stored # "none"
     THEN profile' = [profile EXCEPT !.company_id = profile.stored]
     ELSE \/ profile' = [profile EXCEPT !.company_id = "c1", !.stored = "c1"]
          \/ profile' = [profile EXCEPT !.company_id = "none"]
  /\ UNCHANGED <<server, muts, online, wire, confirmDialog, deleteDialog, started, reads,
                 others, extra, input, output>>

\* another session of the same user runs fetchOrCreateProfile, and there the
\* company is created and the profile updated
peerSignIn ==
  /\ profile.stored = "none"
  /\ profile' = [profile EXCEPT !.stored = "c1"]
  /\ UNCHANGED <<server, cache, muts, online, wire, notice, confirmDialog, deleteDialog,
                 started, reads, others, extra, input, output>>

\* that session, whose profile has the company, creates a request
peerCreate(name) ==
  /\ profile.stored # "none"
  /\ FreeIds(server) # {}
  /\ server' = [server EXCEPT ![FirstFreeId(server)] =
                  [id |-> FirstFreeId(server), status |-> "pending", name |-> name,
                   requested_by |-> profile.id, company_id |-> profile.stored]]
  /\ UNCHANGED <<cache, muts, online, wire, notice, confirmDialog, deleteDialog,
                 started, reads, others, aside>>

\* a signed-in user whose profile has no company yet, and an empty store
InitCompany ==
  /\ server = [i \in Ids |-> NoRow]
  /\ cache = [k \in Keys |-> NewEntry]
  /\ muts = [m \in Slots |-> IdleMut]
  /\ online = TRUE
  /\ wire = 0
  /\ notice = NoNotice
  /\ confirmDialog = NoDialog
  /\ deleteDialog = NoDeleteDialog
  /\ started = 0
  /\ reads = 0
  /\ peerView = [i \in Ids |-> "none"]
  /\ exportOutcome = NoOutcome
  /\ overlapped = FALSE
  /\ profile = [id |-> "u1", company_id |-> "none", stored |-> "none"]
  /\ db = NoDb
  /\ auth = NoAuth
  /\ page = NoPage
  /\ input = NoInput
  /\ output = NoOutput

NextCompany ==
  \/ \E k \in ListKeys : StartRead(k)
  \/ \E k \in ListKeys : QueryFn(k, {})
  \/ \E k \in ListKeys : Land(k)
  \/ \E i \in Ids, t \in Status : handleStatusClick(i, t)
  \/ closeDialog
  \/ \E m \in Slots : handleConfirm(m)
  \/ \E n \in Names, m \in Slots : submitCreate(n, m)
  \/ \E m \in Slots : mutationFn(m)
  \/ \E m \in Slots : settle(m)
  \/ signIn
  \/ peerSignIn
  \/ \E n \in Names : peerCreate(n)

SpecCompany == InitCompany /\ [][NextCompany]_vars

\* C20: while the profile the client holds has no company, no step sends a
\* write of a create, update, status change or delete to the remote store.
C20_NoWriteWithoutCompany ==
  [][profile.company_id = "none" => \A m \in Slots : muts'[m].calls <= muts[m].calls]_vars

\* C21: a create sent by the form carries status pending, the signed-in user
\* as requested_by and the company of the held profile as company_id; the
\* row the store inserts has these values; and once the refetch that the
\* invalidation started has landed, the list holds every request of the
\* store, the created one with status pending.
C21_CreatedPendingAndListed ==
  /\ \A m \in Slots : muts[m].kind = "create" =>
       /\ muts[m].status = "pending"
       /\ muts[m].requested_by = profile.id
       /\ muts[m].company_id = profile.company_id
  /\ \A i \in Ids \ {IdSeq[1]} : server[i] # NoRow =>
       /\ server[i].status = "pending"
       /\ server[i].requested_by = profile.id
       /\ server[i].company_id = profile.company_id
  /\ ( /\ notice = [kind |-> "create", outcome |-> "success"]
       /\ \A m \in Slots : Free(m) )
     => \A k \in ListKeys :
          (~cache[k].fetching /\ cache[k].error = "none") =>
            \A i \in Ids : server[i] # NoRow =>
              \E j \in 1..Len(cache[k].data.rows) : cache[k].data.rows[j] = server[i]

\* the created request is in the store and, pending, in the refetched list
C21_Witness ==
  /\ notice = [kind |-> "create", outcome |-> "success"]
  /\ \A m \in Slots : Free(m)
  /\ server[IdSeq[2]] # NoRow
  /\ \E k \in ListKeys :
       /\ ~cache[k].fetching
       /\ \E j \in 1..Len(cache[k].data.rows) :
            /\ cache[k].data.rows[j].id = IdSeq[2]
            /\ cache[k].data.rows[j].status = "pending"
            /\ cache[k].data.rows[j].requested_by = "u1"
            /\ cache[k].data.rows[j].company_id = "c1"

\* ------------------------------------- the store as several users reach it
\* the users and companies of this part, and the company each user's profile
\* was created with
StoreUsers == {"u1", "u2", "u3"}

Companies == {"c1", "c2"}

Assigned == [u \in StoreUsers |-> IF u = "u3" THEN "c2" ELSE "c1"]

\* policy "Users can view material requests in their company"
CanSelect(d, u, r) == r # NoRow /\ r.company_id = d.profiles[u]

\* policy "Users can create material requests in their company"
CanInsert(d, u, r) == r.company_id = d.profiles[u] /\ r.requested_by = u

\* policy "Users can update material requests in their company": with no
\* WITH CHECK clause the USING expression is also applied to the new row
CanUpdate(d, u, old, new) == CanSelect(d, u, old) /\ CanSelect(d, u, new)

\* policy "Users can delete their own material requests"
CanDelete(d, u, r) == r # NoRow /\ r.requested_by = u /\ r.company_id = d.profiles[u]

\* what a call of a user returned: the error code it threw ("none" when it
\* resolved), the row it was aimed at as it was before the call, the row it
\* sent, and the rows it returned
CallResult(fn, u, error, target, sent, rows) ==
  [fn |-> fn, user |-> u, error |-> error, target |-> target, sent |-> sent, rows |-> rows]

\* fetchMaterialRequests of user u: the rows the select policy shows
store_fetchMaterialRequests(u) ==
  /\ output' = CallResult("select", u, "none", NoRow, NoRow,
                          {db.requests[i] : i \in {j \in Ids : CanSelect(db, u, db.requests[j])}})
  /\ UNCHANGED db

\* createMaterialRequest of user u with the variables r: insert(...).select()
store_createMaterialRequest(u, r) ==
  /\ db.requests[r.id] = NoRow
  /\ IF CanInsert(db, u, r)
     THEN /\ db' = [db EXCEPT !.requests[r.id] = r]
          /\ output' = CallResult("insert", u, "none", NoRow, r, {r})
     ELSE /\ output' = CallResult("insert", u,
                         parsePostgrestError([code |-> "42501", rls |-> TRUE], "insert"),
                         NoRow, r, {})
          /\ UNCHANGED db

\* updateStatus / updateMaterialRequest of user u, or the same update sent
\* with another column: update(...).eq("id", id).select().single()
store_update(u, id, new) ==
  LET old == db.requests[id] IN
  /\ new.id = id
  /\ IF ~CanSelect(db, u, old)
     THEN /\ output' = CallResult("update", u, parsePostgrestError(NoRows, "update"),
                                  old, new, {})
          /\ UNCHANGED db
     ELSE IF ~CanUpdate(db, u, old, new)
     THEN /\ output' = CallResult("update", u,
                         parsePostgrestError([code |-> "42501", rls |-> TRUE], "update"),
                         old, new, {})
          /\ UNCHANGED db
     ELSE /\ db' = [db EXCEPT !.requests[id] = new]
          /\ output' = CallResult("update", u, "none", old, new, {new})

\* deleteMaterialRequest of user u: delete().eq("id", id) removes the rows
\* the delete policy lets through and answers without an error
store_deleteMaterialRequest(u, id) ==
  LET old == db.requests[id] IN
  /\ output' = CallResult("delete", u, "none", old, NoRow, {})
  /\ IF CanDelete(db, u, old)
     THEN db' = [db EXCEPT !.requests[id] = NoRow]
     ELSE UNCHANGED db

\* policy "Users can update their own profile": user u writes a company id
\* into the row of profiles that has u's id
store_updateProfile(u, c) ==
  /\ db.profiles[u] # c
  /\ db' = [db EXCEPT !.profiles[u] = c]
  /\ output' = CallResult("profile", u, "none", NoRow, NoRow, {})

\* the rows a user can send: any requester, any company
SentRows ==
  [id : Ids, status : {"approved"}, name : {"steel"},
   requested_by : StoreUsers, company_id : Companies]

\* one call of one user; the rest of the application stands still
storeCall(call) ==
  /\ call
  /\ UNCHANGED <<server, cache, muts, online, wire, notice, confirmDialog, deleteDialog,
                 started, reads, others, profile, input, auth, page>>

InitTenant ==
  /\ Quiet
  /\ db = [profiles |-> Assigned,
           requests |-> [i \in Ids |-> IF i = IdSeq[1]
                                       THEN [id |-> i, status |-> "pending", name |-> "steel",
                                             requested_by |-> "u2", company_id |-> "c1"]
                                       ELSE NoRow]]
  /\ auth = NoAuth
  /\ page = NoPage
  /\ input = NoInput
  /\ output = NoOutput

NextTenant ==
  \/ \E u \in StoreUsers : storeCall(store_fetchMaterialRequests(u))
  \/ \E u \in StoreUsers, r \in SentRows : storeCall(store_createMaterialRequest(u, r))
  \/ \E u \in StoreUsers, r \in SentRows : storeCall(store_update(u, r.id, r))
  \/ \E u \in StoreUsers, i \in Ids : storeCall(store_deleteMaterialRequest(u, i))
  \/ \E u \in StoreUsers, c \in Companies : storeCall(store_updateProfile(u, c))

SpecTenant == InitTenant /\ [][NextTenant]_vars

C23_TenantScoping ==
  /\ output.fn = "select" =>
       \A r \in output.rows : r.company_id = Assigned[output.user]
  /\ (output.fn = "insert" /\ output.error = "none") =>
       output.sent.company_id = Assigned[output.user]
  /\ (output.fn = "update" /\ output.error = "none") =>
       /\ output.target.company_id = Assigned[output.user]
       /\ output.sent.company_id = Assigned[output.user]

\* ------------------------------------------------------------ the list route
\* the largest page index a URL of this part names
MaxUrlPage == 2

\* the numbers of requests the store can hold when a list query is answered
TotalCounts == {0, 12}

\* a raw search parameter of the URL: left out, a number, or text that is
\* no number
RawAbsent == [kind |-> "absent", n |-> 0, text |-> ""]

RawNumber(n) == [kind |-> "number", n |-> n, text |-> ""]

RawText(t) == [kind |-> "text", n |-> 0, text |-> t]

\* the URLs that are opened: page, pageSize and status take every one of
\* these raw values, the other parameters are left out
RawUrls ==
  [page          : {RawAbsent, RawText("x"), RawNumber(-1), RawNumber(MaxUrlPage)},
   pageSize      : {RawAbsent} \cup {RawNumber(n) : n \in {4, 5, 101}},
   status        : {RawAbsent, RawText("bogus")},
   priority      : {RawAbsent},
   search        : {RawAbsent},
   sortColumn    : {RawAbsent},
   sortDirection : {RawAbsent}]

\* z.coerce.number().min(lo).max(hi).optional().default(d): whether the raw
\* value passes, and the number it gives
numberPasses(raw, lo, hi) ==
  \/ raw.kind = "absent"
  \/ raw.kind = "number" /\ lo <= raw.n /\ raw.n <= hi

numberParsed(raw, d) == IF raw.kind = "absent" THEN d ELSE raw.n

\* z.enum(values).optional().default(d) and z.string().optional().default(d)
enumPasses(raw, values) == raw.kind = "absent" \/ (raw.kind = "text" /\ raw.text \in values)

textParsed(raw, d) == IF raw.kind = "absent" THEN d ELSE raw.text

\* no upper limit on page: the largest number of this part stands for it
NoLimit == 1000

\* searchParamsSchema with pageSize allowed from 1
searchParamsSchema_anySize(raw) ==
  [success |-> /\ numberPasses(raw.page, 0, NoLimit)
               /\ numberPasses(raw.pageSize, 1, 101)
               /\ enumPasses(raw.status, {"all", "pending", "approved", "rejected", "fulfilled"})
               /\ enumPasses(raw.priority, {"all", "low", "medium", "high", "urgent"})
               /\ raw.search.kind \in {"absent", "text"}
               /\ raw.sortColumn.kind \in {"absent", "text"}
               /\ enumPasses(raw.sortDirection, {"asc", "desc"}),
   data    |-> [page          |-> numberParsed(raw.page, 0),
                pageSize      |-> numberParsed(raw.pageSize, DEFAULT_PAGE_SIZE),
                status        |-> textParsed(raw.status, "all"),
                priority      |-> textParsed(raw.priority, "all"),
                search        |-> textParsed(raw.search, ""),
                sortColumn    |-> textParsed(raw.sortColumn, DEFAULT_SORTING.column),
                sortDirection |-> textParsed(raw.sortDirection, DEFAULT_SORTING.direction)]]

\* searchParamsSchema, the validateSearch of the list route
searchParamsSchema(raw) ==
  [success |-> /\ numberPasses(raw.page, 0, NoLimit)
               /\ numberPasses(raw.pageSize, 5, 100)
               /\ enumPasses(raw.status, {"all", "pending", "approved", "rejected", "fulfilled"})
               /\ enumPasses(raw.priority, {"all", "low", "medium", "high", "urgent"})
               /\ raw.search.kind \in {"absent", "text"}
               /\ raw.sortColumn.kind \in {"absent", "text"}
               /\ enumPasses(raw.sortDirection, {"asc", "desc"}),
   data    |-> [page          |-> numberParsed(raw.page, 0),
                pageSize      |-> numberParsed(raw.pageSize, DEFAULT_PAGE_SIZE),
                status        |-> textParsed(raw.status, "all"),
                priority      |-> textParsed(raw.priority, "all"),
                search        |-> textParsed(raw.search, ""),
                sortColumn    |-> textParsed(raw.sortColumn, DEFAULT_SORTING.column),
                sortDirection |-> textParsed(raw.sortDirection, DEFAULT_SORTING.direction)]]

\* no response shown: response?.pagination ?? null
NoResponse ==
  [present |-> FALSE,
   pagination |-> [totalCount |-> 0, totalPages |-> 0, currentPage |-> 0, pageSize |-> 0,
                   hasNextPage |-> FALSE, hasPreviousPage |-> FALSE]]

\* no list query issued yet
NoDescriptor ==
  [present |-> FALSE, status |-> "all", priority |-> "all", search |-> "", pageIndex |-> 0, pageSize |-> 0,
   column |-> "none", direction |-> "none"]

\* the arguments of useMaterialRequests in MaterialRequestsPage: filters with
\* the debounced search, pagination and sorting from the search parameters
listDescriptor(p) ==
  [present |-> TRUE, status |-> p.params.status, priority |-> p.params.priority,
   search |-> p.debounced,
   pageIndex |-> p.params.page, pageSize |-> p.params.pageSize,
   column |-> p.params.sortColumn, direction |-> p.params.sortDirection]

\* navigate with replaced search parameters: validateSearch runs on the new
\* location, and the page renders only when it passes
navigated(p, raw, handler) ==
  LET parsed == searchParamsSchema(raw)
  IN IF parsed.success
     THEN [p EXCEPT !.valid = TRUE, !.params = parsed.data, !.last = handler]
     ELSE [p EXCEPT !.valid = FALSE, !.last = handler]

\* updateSearchParams: the updates are merged over the previous parameters
updateSearchParams(p, updates) ==
  [page          |-> IF updates.page.kind = "absent"
                     THEN RawNumber(p.params.page) ELSE updates.page,
   pageSize      |-> IF updates.pageSize.kind = "absent"
                     THEN RawNumber(p.params.pageSize) ELSE updates.pageSize,
   status        |-> IF updates.status.kind = "absent"
                     THEN RawText(p.params.status) ELSE updates.status,
   priority      |-> IF updates.priority.kind = "absent"
                     THEN RawText(p.params.priority) ELSE updates.priority,
   search        |-> IF updates.search.kind = "absent"
                     THEN RawText(p.params.search) ELSE updates.search,
   sortColumn    |-> IF updates.sortColumn.kind = "absent"
                     THEN RawText(p.params.sortColumn) ELSE updates.sortColumn,
   sortDirection |-> IF updates.sortDirection.kind = "absent"
                     THEN RawText(p.params.sortDirection) ELSE updates.sortDirection]

NoUpdates ==
  [page |-> RawAbsent, pageSize |-> RawAbsent, status |-> RawAbsent, priority |-> RawAbsent,
   search |-> RawAbsent,
   sortColumn |-> RawAbsent, sortDirection |-> RawAbsent]

\* the user opens the list under a URL: the route validates the search
\* parameters and mounts the page, whose search input starts as the
\* parameter; a URL that does not validate shows the route's error instead
openUrl(raw) ==
  LET parsed == searchParamsSchema(raw)
  IN page' = IF parsed.success
             THEN [fn |-> "list", valid |-> TRUE, params |-> parsed.data,
                   searchInput |-> parsed.data.search, debounced |-> parsed.data.search,
                   response |-> NoResponse, issued |-> NoDescriptor, last |-> "open"]
             ELSE [page EXCEPT !.valid = FALSE, !.response = NoResponse,
                               !.issued = NoDescriptor, !.last = "open"]

\* useMaterialRequests renders with a descriptor it has not asked for yet:
\* the list query of that descriptor is issued
useMaterialRequests_issue ==
  /\ page.valid
  /\ page.issued # listDescriptor(page)
  /\ page' = [page EXCEPT !.issued = listDescriptor(page), !.last = "render"]

\* the query of the current descriptor is answered; until then the previous
\* response stays on the page (placeholderData)
useMaterialRequests_land(totalCount) ==
  /\ page.valid
  /\ page.issued = listDescriptor(page)
  /\ page' = [page EXCEPT
       !.response = [present |-> TRUE,
                     pagination |-> paginationMeta(totalCount, page.issued.pageSize,
                                      page.issued.pageIndex,
                                      rangeLength(totalCount, page.issued.pageSize,
                                                  page.issued.pageIndex))],
       !.last = "render"]

\* the query of the current descriptor fails: no data and no pagination
useMaterialRequests_fail ==
  /\ page.valid
  /\ page.issued = listDescriptor(page)
  /\ page' = [page EXCEPT !.response = NoResponse, !.last = "render"]

\* the effect of useMaterialRequests that prefetches the next page
useMaterialRequests_prefetch ==
  /\ page.valid
  /\ page.response.present
  /\ page.response.pagination.hasNextPage
  /\ page' = [page EXCEPT
       !.issued = [listDescriptor(page) EXCEPT !.pageIndex = page.params.page + 1],
       !.last = "render"]

\* useDebounce: the search input reaches the filters of the query
useDebounce ==
  /\ page.valid
  /\ page.debounced # page.searchInput
  /\ page' = [page EXCEPT !.debounced = page.searchInput, !.last = "render"]

\* handleFiltersChange of the route
handleFiltersChange(newFilters) ==
  page' = [navigated(page,
                     updateSearchParams(page,
                       [NoUpdates EXCEPT !.status = RawText(newFilters.status),
                                         !.priority = RawText(newFilters.priority),
                                         !.search = RawText(newFilters.search),
                                         !.page = RawNumber(0)]),
                     "filters")
           EXCEPT !.searchInput = newFilters.search]

\* displayFilters: the filters the filters component is given
displayFilters ==
  [status |-> page.params.status, priority |-> page.params.priority,
   search |-> page.searchInput]

\* handleStatusChange, handlePriorityChange, handleSearchChange and
\* handleClearFilters of the filters component
handleStatusChange(value) ==
  /\ page.valid
  /\ handleFiltersChange([displayFilters EXCEPT !.status = value])

handlePriorityChange(value) ==
  /\ page.valid
  /\ handleFiltersChange([displayFilters EXCEPT !.priority = value])

handleSearchChange(value) ==
  /\ page.valid
  /\ handleFiltersChange([displayFilters EXCEPT !.search = value])

handleClearFilters ==
  /\ page.valid
  /\ handleFiltersChange([status |-> "all", priority |-> "all", search |-> ""])

\* handlePaginationChange of the route
handlePaginationChange(newPagination) ==
  page' = navigated(page,
                    updateSearchParams(page,
                      [NoUpdates EXCEPT !.page = RawNumber(newPagination.pageIndex),
                                        !.pageSize = RawNumber(newPagination.pageSize)]),
                    "pagination")

\* the pagination bar is rendered when the table has a response with rows
TablePagination == page.valid /\ page.response.present /\ page.response.pagination.totalCount > 0

\* the Next button, enabled when canNextPage
onNextPage ==
  /\ TablePagination
  /\ page.response.pagination.hasNextPage
  /\ handlePaginationChange([pageIndex |-> page.response.pagination.currentPage + 1,
                             pageSize |-> page.response.pagination.pageSize])

\* the Previous button, enabled when canPreviousPage
onPreviousPage ==
  /\ TablePagination
  /\ page.response.pagination.hasPreviousPage
  /\ handlePaginationChange([pageIndex |-> page.response.pagination.currentPage - 1,
                             pageSize |-> page.response.pagination.pageSize])

\* handleSortingChange without the reset of page
handleSortingChange_keepPage(newSorting) ==
  page' = navigated(page,
                    updateSearchParams(page,
                      [NoUpdates EXCEPT !.sortColumn = RawText(newSorting.column),
                                        !.sortDirection = RawText(newSorting.direction)]),
                    "sorting")

\* handleSortingChange of the route
handleSortingChange(newSorting) ==
  page' = navigated(page,
                    updateSearchParams(page,
                      [NoUpdates EXCEPT !.sortColumn = RawText(newSorting.column),
                                        !.sortDirection = RawText(newSorting.direction),
                                        !.page = RawNumber(0)]),
                    "sorting")

\* handleSortClick of the table
handleSortClick(column) ==
  /\ page.valid
  /\ handleSortingChange(
       IF page.params.sortColumn = column
       THEN [column |-> column,
             direction |-> IF page.params.sortDirection = "asc" THEN "desc" ELSE "asc"]
       ELSE [column |-> column, direction |-> "desc"])

listStep(step) ==
  /\ step
  /\ UNCHANGED <<server, cache, muts, online, wire, notice, confirmDialog, deleteDialog,
                 started, reads, others, profile, input, output, db, auth>>

InitList ==
  /\ Quiet
  /\ db = NoDb
  /\ auth = NoAuth
  /\ input = NoInput
  /\ output = NoOutput
  /\ page = [fn |-> "list", valid |-> TRUE, params |-> searchParamsSchema(NoUpdates).data,
             searchInput |-> "", debounced |-> "", response |-> NoResponse,
             issued |-> NoDescriptor, last |-> "open"]

NextList ==
  \/ \E raw \in RawUrls : listStep(openUrl(raw))
  \/ listStep(useMaterialRequests_issue)
  \/ \E n \in TotalCounts : listStep(useMaterialRequests_land(n))
  \/ listStep(useMaterialRequests_fail)
  \/ listStep(useMaterialRequests_prefetch)
  \/ listStep(useDebounce)
  \/ \E v \in {"all", "pending"} : listStep(handleStatusChange(v))
  \/ \E v \in {"all", "high"} : listStep(handlePriorityChange(v))
  \/ \E v \in {"", "a"} : listStep(handleSearchChange(v))
  \/ listStep(handleClearFilters)
  \/ listStep(onNextPage)
  \/ listStep(onPreviousPage)
  \/ \E c \in {"requested_at", "quantity"} : listStep(handleSortClick(c))

SpecList == InitList /\ [][NextList]_vars

\* C24: every list query issued has pageIndex >= 0 and 5 <= pageSize <= 100,
\* and a step of the Next or Previous button goes one page up or down from a
\* shown response that reports hasNextPage or hasPreviousPage.
C24_ListQueryInRange ==
  [][ /\ page'.issued.present =>
           /\ page'.issued.pageIndex >= 0
           /\ 5 <= page'.issued.pageSize
           /\ page'.issued.pageSize <= 100
      /\ page'.last = "pagination" /\ page' # page =>
           /\ page.response.present
           /\ \/ /\ page.response.pagination.hasNextPage
                 /\ page'.params.page = page.response.pagination.currentPage + 1
              \/ /\ page.response.pagination.hasPreviousPage
                 /\ page'.params.page = page.response.pagination.currentPage - 1 ]_vars

\* the Next button took the list to its third page of five rows, after the
\* query of the second page
C24_Witness ==
  /\ page.last = "pagination"
  /\ page.valid
  /\ page.params.page = 2
  /\ page.params.pageSize = 5
  /\ page.issued.present
  /\ page.issued.pageIndex = 1
  /\ page.response.pagination.currentPage = 1

\* C26: a filter change or a sort change sets page to 0 and keeps pageSize, a
\* filter change keeps the sorting and a sort change keeps the filters; a
\* page change keeps filters and sorting; a click on the sorted column
\* flips its direction and a click on another column sorts it descending.
C26_HandlerFrames ==
  [][ /\ page'.last = "filters" /\ page' # page =>
           /\ page'.params.page = 0
           /\ page'.params.pageSize = page.params.pageSize
           /\ page'.params.sortColumn = page.params.sortColumn
           /\ page'.params.sortDirection = page.params.sortDirection
      /\ page'.last = "sorting" /\ page' # page =>
           /\ page'.params.page = 0
           /\ page'.params.pageSize = page.params.pageSize
           /\ page'.params.status = page.params.status
           /\ page'.params.priority = page.params.priority
           /\ page'.params.search = page.params.search
           /\ page'.searchInput = page.searchInput
           /\ IF page'.params.sortColumn = page.params.sortColumn
              THEN page'.params.sortDirection # page.params.sortDirection
              ELSE page'.params.sortDirection = "desc"
      /\ page'.last = "pagination" /\ page' # page =>
           /\ page'.params.status = page.params.status
           /\ page'.params.priority = page.params.priority
           /\ page'.params.search = page.params.search
           /\ page'.searchInput = page.searchInput
           /\ page'.params.sortColumn = page.params.sortColumn
           /\ page'.params.sortDirection = page.params.sortDirection ]_vars

\* a click on another column, on the second page of the pending requests
\* sorted ascending, gave the first page sorted by that column descending
C26_Witness ==
  /\ page.last = "sorting"
  /\ page.valid
  /\ page.params.page = 0
  /\ page.params.status = "pending"
  /\ page.params.sortColumn = "quantity"
  /\ page.params.sortDirection = "desc"
  /\ page.issued.present
  /\ page.issued.pageIndex = 1
  /\ page.issued.column = "requested_at"
  /\ page.issued.direction = "asc"

NextWrites ==
  \/ \E k \in Keys : StartRead(k)
  \/ \E k \in Keys : QueryFn(k, {})
  \/ \E k \in Keys : Land(k)
  \/ \E i \in Ids : handleStatusClick(i, "approved")
  \/ \E m \in Slots : handleConfirm(m)
  \/ \E i \in Ids, m \in Slots : submitEdit(i, "cement", m)
  \/ \E m \in Slots : submitCreate("steel", m)
  \/ \E i \in Ids : handleDeleteClick(i)
  \/ \E m \in Slots : handleDelete(m)
  \/ \E m \in Slots : mutationFn(m)
  \/ \E m \in Slots : settle(m)

SpecWrites == Init /\ [][NextWrites]_vars

\* C27: a mutate() of the create, update, status or delete hook issues at
\* most one remote write call, whether the write succeeds, is refused by
\* the store or fails with a fault.
C27_AtMostOneWriteCall ==
  /\ \A m \in Slots : muts[m].calls <= 1
  /\ \A m \in Slots : muts[m].pc = "mutated" => muts[m].calls = 0

\* a remote write failed and its mutation went on to its callbacks after
\* that one call
C27_Witness ==
  \E m \in Slots :
    /\ muts[m].pc = "called"
    /\ muts[m].result \notin {"ok", "NETWORK_OFFLINE"}
    /\ muts[m].calls = 1

\* ------------------------------------------------------- the AuthProvider
\* the accounts that sign in on this browser
Accounts == {"u1", "u2"}

\* a call of the provider that is not running
NoCall == [pc |-> "idle", user |-> "none"]

\* the setters of the provider's state
setSession(a, s) == [a EXCEPT !.session = s]

setUser(a, u) == [a EXCEPT !.user = u]

setProfile(a, p) == [a EXCEPT !.profile = p]

\* what fetchOrCreateProfile(userId) resolves to: the profile of that user,
\* or null with an error
ProfileResults(userId) == {userId, "none"}

\* initializeAuth up to its first await: getSession is called
initializeAuth ==
  /\ auth.init.pc = "start"
  /\ auth' = [auth EXCEPT !.init = [pc |-> "getSession", user |-> "none"]]

\* initializeAuth after getSession: with a stored session, setSession and
\* setUser, and fetchOrCreateProfile is called; without one, nothing
initializeAuth_session ==
  /\ auth.init.pc = "getSession"
  /\ auth' = IF auth.stored # "none"
             THEN [setUser(setSession(auth, auth.stored), auth.stored)
                     EXCEPT !.init = [pc |-> "fetchOrCreateProfile", user |-> auth.stored]]
             ELSE [auth EXCEPT !.init = [pc |-> "done", user |-> "none"]]

\* initializeAuth after fetchOrCreateProfile: setProfile(userProfile), the
\* provider being mounted
initializeAuth_profile ==
  /\ auth.init.pc = "fetchOrCreateProfile"
  /\ \E p \in ProfileResults(auth.init.user) :
       auth' = [setProfile(auth, p) EXCEPT !.init = [pc |-> "done", user |-> "none"]]

\* signIn up to its first await: signInWithPassword is called
signIn_call(u) ==
  /\ auth.signIn.pc = "idle"
  /\ auth' = [auth EXCEPT !.signIn = [pc |-> "signInWithPassword", user |-> u]]

\* signIn after signInWithPassword: an error is returned, or the client
\* holds the new session, setSession and setUser, and fetchOrCreateProfile
\* is called
signIn_session ==
  /\ auth.signIn.pc = "signInWithPassword"
  /\ \/ auth' = [auth EXCEPT !.signIn = NoCall]
     \/ auth' = [setUser(setSession(auth, auth.signIn.user), auth.signIn.user)
                   EXCEPT !.stored = auth.signIn.user,
                          !.signIn = [pc |-> "fetchOrCreateProfile", user |-> auth.signIn.user]]

\* signIn after fetchOrCreateProfile: setProfile(userProfile)
signIn_profile ==
  /\ auth.signIn.pc = "fetchOrCreateProfile"
  /\ \E p \in ProfileResults(auth.signIn.user) :
       auth' = [setProfile(auth, p) EXCEPT !.signIn = NoCall]

\* signOut up to its await: auth.signOut is called
signOut_call ==
  /\ auth.signOut.pc = "idle"
  /\ auth' = [auth EXCEPT !.signOut = [pc |-> "signOut", user |-> "none"]]

\* signOut after auth.signOut: an error is returned, or the client has
\* dropped its session and session, user and profile are set to null
signOut_done ==
  /\ auth.signOut.pc = "signOut"
  /\ \/ auth' = [auth EXCEPT !.signOut = NoCall]
     \/ auth' = [setProfile(setUser(setSession(auth, "none"), "none"), "none")
                   EXCEPT !.stored = "none", !.signOut = NoCall]

\* refreshSession up to its await: auth.refreshSession is called, and the
\* client answers with the session it holds
refreshSession_call ==
  /\ auth.refresh.pc = "idle"
  /\ auth' = [auth EXCEPT !.refresh = [pc |-> "refreshSession", user |-> auth.stored]]

\* refreshSession after auth.refreshSession: with a session in the answer,
\* setSession and setUser
refreshSession_done ==
  /\ auth.refresh.pc = "refreshSession"
  /\ auth' = IF auth.refresh.user # "none"
             THEN [setUser(setSession(auth, auth.refresh.user), auth.refresh.user)
                     EXCEPT !.refresh = NoCall]
             ELSE [auth EXCEPT !.refresh = NoCall]

\* the onAuthStateChange listener on TOKEN_REFRESHED with the new session
onAuthStateChange_TOKEN_REFRESHED ==
  /\ auth.init.pc # "start"
  /\ auth.stored # "none"
  /\ auth' = setUser(setSession(auth, auth.stored), auth.stored)

\* the onAuthStateChange listener on SIGNED_OUT, which the client raises
\* when the session ends in another tab or cannot be refreshed
onAuthStateChange_SIGNED_OUT ==
  /\ auth.init.pc # "start"
  /\ auth' = [setProfile(setUser(setSession(auth, "none"), "none"), "none")
                EXCEPT !.stored = "none"]

authStep(step) ==
  /\ step
  /\ UNCHANGED <<server, cache, muts, online, wire, notice, confirmDialog, deleteDialog,
                 started, reads, others, profile, input, output, db, page>>

\* the provider mounts in a browser that holds a session or none
InitAuth ==
  /\ Quiet
  /\ db = NoDb
  /\ page = NoPage
  /\ input = NoInput
  /\ output = NoOutput
  /\ \E s \in Accounts \cup {"none"} :
       auth = [fn |-> "auth", session |-> "none", user |-> "none", profile |-> "none",
               stored |-> s, init |-> [pc |-> "start", user |-> "none"],
               signIn |-> NoCall, signOut |-> NoCall, refresh |-> NoCall]

NextAuth ==
  \/ authStep(initializeAuth)
  \/ authStep(initializeAuth_session)
  \/ authStep(initializeAuth_profile)
  \/ \E u \in Accounts : authStep(signIn_call(u))
  \/ authStep(signIn_session)
  \/ authStep(signIn_profile)
  \/ authStep(signOut_call)
  \/ authStep(signOut_done)
  \/ authStep(refreshSession_call)
  \/ authStep(refreshSession_done)
  \/ authStep(onAuthStateChange_TOKEN_REFRESHED)
  \/ authStep(onAuthStateChange_SIGNED_OUT)

SpecAuth == InitAuth /\ [][NextAuth]_vars

\* C28: whenever the provider holds a profile it holds a session and a
\* user, also after a sign-out that completed while the profile fetch of
\* a sign-in or of the initialization was pending.
C28_ProfileImpliesSession ==
  auth.profile # "none" => auth.session # "none" /\ auth.user # "none"

\* --------------------------------------------------- fetchOrCreateProfile
\* the callers of fetchOrCreateProfile for the one user of this part: the
\* initialization of the provider and a sign-in
Runs == {"initializeAuth", "signIn"}

\* a profiles row: company_id 0 is null
NoProfileRow == [exists |-> FALSE, company_id |-> 0]

\* a run that has not been called
NoRun == [pc |-> "idle", existingProfile |-> NoProfileRow, newCompany |-> 0,
          profile |-> NoProfileRow, error |-> "none"]

\* the id the store gives the next companies row
newCompanyId(d) == Cardinality(d.companies) + 1

\* fetchOrCreateProfile, the select of the profile: a profile with a company
\* is returned; a profile without one, or no profile (PGRST116), leads to
\* the insert of a company; another error is returned
fetchOrCreateProfile_select(r) ==
  /\ db.runs[r].pc = "idle"
  /\ \/ db' = [db EXCEPT !.runs[r] =
                 IF db.profile.exists /\ db.profile.company_id # 0
                 THEN [NoRun EXCEPT !.pc = "returned", !.existingProfile = db.profile,
                                    !.profile = db.profile]
                 ELSE [NoRun EXCEPT !.pc = "insertCompany", !.existingProfile = db.profile]]
     \/ db' = [db EXCEPT !.runs[r] =
                 [NoRun EXCEPT !.pc = "returned", !.error = "DB_FETCH_FAILED"]]

\* fetchOrCreateProfile, the insert of the company "My Company": the store
\* adds the row, or answers companyError
fetchOrCreateProfile_insertCompany(r) ==
  /\ db.runs[r].pc = "insertCompany"
  /\ \/ db' = [db EXCEPT !.companies = @ \cup {newCompanyId(db)},
                         !.runs[r].newCompany = newCompanyId(db),
                         !.runs[r].pc = IF db.runs[r].existingProfile.exists
                                        THEN "updateProfile" ELSE "insertProfile"]
     \/ db' = [db EXCEPT !.runs[r] =
                 IF db.runs[r].existingProfile.exists
                 THEN [db.runs[r] EXCEPT !.pc = "returned",
                                         !.profile = db.runs[r].existingProfile]
                 ELSE [db.runs[r] EXCEPT !.pc = "returned", !.error = "DB_INSERT_FAILED"]]

\* fetchOrCreateProfile, the update of the existing profile with the new
\* company: the store writes it, or answers updateError and the existing
\* profile is returned
fetchOrCreateProfile_updateProfile(r) ==
  /\ db.runs[r].pc = "updateProfile"
  /\ \/ /\ db.profile.exists
        /\ db' = [db EXCEPT !.profile.company_id = db.runs[r].newCompany,
                            !.runs[r].pc = "returned",
                            !.runs[r].profile = [exists |-> TRUE,
                                                 company_id |-> db.runs[r].newCompany]]
     \/ db' = [db EXCEPT !.runs[r].pc = "returned",
                         !.runs[r].profile = db.runs[r].existingProfile]

\* fetchOrCreateProfile, the insert of the profile with the new company: the
\* store adds the row unless the user has a profile by now (the primary key)
\* or it fails otherwise, and then null and the error are returned
fetchOrCreateProfile_insertProfile(r) ==
  /\ db.runs[r].pc = "insertProfile"
  /\ \/ /\ ~db.profile.exists
        /\ db' = [db EXCEPT !.profile = [exists |-> TRUE,
                                         company_id |-> db.runs[r].newCompany],
                            !.runs[r].pc = "returned",
                            !.runs[r].profile = [exists |-> TRUE,
                                                 company_id |-> db.runs[r].newCompany]]
     \/ db' = [db EXCEPT !.runs[r].pc = "returned",
                         !.runs[r].error = IF db.profile.exists THEN "DB_DUPLICATE_ENTRY"
                                           ELSE "DB_INSERT_FAILED"]

profileStep(step) ==
  /\ step
  /\ UNCHANGED <<server, cache, muts, online, wire, notice, confirmDialog, deleteDialog,
                 started, reads, others, profile, input, output, auth, page>>

\* the user has no profile row, or a profile whose company is null, and no
\* company of their own
InitProfile ==
  /\ Quiet
  /\ auth = NoAuth
  /\ page = NoPage
  /\ input = NoInput
  /\ output = NoOutput
  /\ \E p \in {NoProfileRow, [exists |-> TRUE, company_id |-> 0]} :
       db = [fn |-> "fetchOrCreateProfile", profile |-> p, companies |-> {},
             runs |-> [r \in Runs |-> NoRun]]

NextProfile ==
  \/ \E r \in Runs : profileStep(fetchOrCreateProfile_select(r))
  \/ \E r \in Runs : profileStep(fetchOrCreateProfile_insertCompany(r))
  \/ \E r \in Runs : profileStep(fetchOrCreateProfile_updateProfile(r))
  \/ \E r \in Runs : profileStep(fetchOrCreateProfile_insertProfile(r))

SpecProfile == InitProfile /\ [][NextProfile]_vars

FormData ==
  [material_name : Names, quantity : {1, 2}, unit : {"kg"}, priority : {"low", "high"},
   notes : {"", "dry"}, project_id : {"", "p1"}]

\* a row of material_requests with all the columns the form and the
\* policies look at
FullRow(id, status, requested_by) ==
  [id |-> id, status |-> status, material_name |-> "steel", quantity |-> 1, unit |-> "kg",
   priority |-> "low", notes |-> "null", project_id |-> "null",
   requested_by |-> requested_by, company_id |-> "c1", updated_at |-> "then"]

\* { ...a, ...b }
spread(a, b) ==
  [f \in DOMAIN a \cup DOMAIN b |-> IF f \in DOMAIN b THEN b[f] ELSE a[f]]

\* value || null
orNull(value) == IF value = "" THEN "null" ELSE value

\* the data of onSubmit in edit mode with the status of the create branch
editData_withStatus(data) ==
  [material_name |-> data.material_name, quantity |-> data.quantity, unit |-> data.unit,
   priority |-> data.priority, notes |-> orNull(data.notes),
   project_id |-> orNull(data.project_id), status |-> "pending"]

\* the data onSubmit passes to updateMutation.mutate in edit mode
editData(data) ==
  [material_name |-> data.material_name, quantity |-> data.quantity, unit |-> data.unit,
   priority |-> data.priority, notes |-> orNull(data.notes),
   project_id |-> orNull(data.project_id)]

\* the updater of useUpdateMaterialRequest.onMutate on the data of a query
editUpdater(old, id, data) ==
  IF old.tag # "array" THEN old
  ELSE [old EXCEPT !.rows = [i \in DOMAIN old.rows |->
                               IF old.rows[i].id = id THEN spread(old.rows[i], data)
                               ELSE old.rows[i]]]

\* onSubmit of MaterialRequestForm in edit mode: mutate({id, data})
edit_onSubmit ==
  /\ input.fn = "edit"
  /\ output = NoOutput
  /\ output' = [fn |-> "edit", pc |-> "onSubmit",
                variables |-> [id |-> input.initialData.id, data |-> editData(input.form)],
                list |-> input.list, detail |-> input.detail, store |-> input.store,
                sent |-> <<>>, error |-> "none"]
  /\ UNCHANGED <<server, cache, muts, online, wire, notice, confirmDialog, deleteDialog,
                 started, reads, others, extra, profile, input>>

\* useUpdateMaterialRequest.onMutate on the cached list and the cached
\* single request
edit_onMutate ==
  /\ output.fn = "edit"
  /\ output.pc = "onSubmit"
  /\ output' = [output EXCEPT
       !.pc = "onMutate",
       !.list = editUpdater(output.list, output.variables.id, output.variables.data),
       !.detail = IF output.detail.tag = "row"
                  THEN [tag |-> "row",
                        rows |-> <<spread(output.detail.rows[1], output.variables.data)>>]
                  ELSE editUpdater(output.detail, output.variables.id,
                                   output.variables.data)]
  /\ UNCHANGED <<server, cache, muts, online, wire, notice, confirmDialog, deleteDialog,
                 started, reads, others, extra, profile, input>>

\* updateMaterialRequest: update(updateData).eq("id", id), which sets the
\* columns of updateData on the row with that id, or fails
edit_updateMaterialRequest ==
  /\ output.fn = "edit"
  /\ output.pc = "onMutate"
  /\ LET updateData == spread(output.variables.data, [updated_at |-> "now"]) IN
     \/ output' = [output EXCEPT
          !.pc = "updateMaterialRequest",
          !.sent = updateData,
          !.store = [i \in DOMAIN output.store |->
                       IF output.store[i].id = output.variables.id
                       THEN spread(output.store[i], updateData)
                       ELSE output.store[i]]]
     \/ output' = [output EXCEPT !.pc = "updateMaterialRequest", !.sent = updateData,
                                 !.error = "DB_PERMISSION_DENIED"]
  /\ UNCHANGED <<server, cache, muts, online, wire, notice, confirmDialog, deleteDialog,
                 started, reads, others, extra, profile, input>>

\* the edit page of one of two stored requests, with the list cached as a
\* page and the single request cached
InitEdit ==
  /\ Quiet
  /\ db = NoDb
  /\ auth = NoAuth
  /\ page = NoPage
  /\ output = NoOutput
  /\ \E form \in FormData, s \in {"pending", "approved"}, u \in {"u1", "u2"}, n \in 1..2 :
       LET rows == <<FullRow("r1", s, u), FullRow("r2", "rejected", "u2")>> IN
       input = [fn |-> "edit", form |-> form, initialData |-> rows[n], store |-> rows,
                list |-> [tag |-> "page", rows |-> rows],
                detail |-> [tag |-> "row", rows |-> <<rows[n]>>]]

NextEdit ==
  \/ edit_onSubmit
  \/ edit_onMutate
  \/ edit_updateMaterialRequest

SpecEdit == InitEdit /\ [][NextEdit]_vars

\* the columns a row keeps through an edit
Kept(before, after) ==
  /\ after.status = before.status
  /\ after.requested_by = before.requested_by
  /\ after.company_id = before.company_id

\* C30: the data of an edit holds exactly material_name, quantity, unit,
\* priority, notes and project_id, and what is sent adds updated_at only;
\* the optimistic patch and the store's update keep status, requested_by
\* and company_id of every row and keep every row with another id whole.
C30_EditKeepsStatusRequesterCompany ==
  output.fn = "edit" =>
    /\ DOMAIN output.variables.data =
         {"material_name", "quantity", "unit", "priority", "notes", "project_id"}
    /\ output.pc = "updateMaterialRequest" =>
         DOMAIN output.sent = DOMAIN output.variables.data \cup {"updated_at"}
    /\ \A i \in DOMAIN input.store :
         /\ Kept(input.list.rows[i], output.list.rows[i])
         /\ Kept(input.store[i], output.store[i])
         /\ input.store[i].id # output.variables.id =>
              /\ output.list.rows[i] = input.list.rows[i]
              /\ output.store[i] = input.store[i]
    /\ Kept(input.detail.rows[1], output.detail.rows[1])

\* an edit of an approved request of another user was written: the cached
\* single request and the stored row carry the new name and quantity
C30_Witness ==
  /\ output.fn = "edit"
  /\ output.pc = "updateMaterialRequest"
  /\ output.error = "none"
  /\ input.initialData.status = "approved"
  /\ input.initialData.requested_by = "u2"
  /\ output.detail.rows[1].material_name = "cement"
  /\ output.detail.rows[1].quantity = 2
  /\ \E i \in DOMAIN output.store :
       /\ output.store[i].id = output.variables.id
       /\ output.store[i].material_name = "cement"
       /\ output.store[i].updated_at = "now"

====
